---------------------------- MODULE Spec2Model ----------------------------
(***************************************************************************)
(* Model of the equipment-support REST API (src/server.js).  The file      *)
(* holds two server variants: the hosted-storage variant (lines 1-815)     *)
(* and the hybrid variant (lines 816-1577).  Both keep their records in    *)
(* the remote table "computadores"; the hosted variant keeps attachments   *)
(* in the bucket "imagenes-soporte", the hybrid variant writes new         *)
(* attachments under the local directory UPLOADS_DIR.                      *)
(*                                                                         *)
(* Strings are sequences of one-character strings, so that the regular     *)
(* expressions, template literals and path operations of the source are    *)
(* computed rather than assumed.  An optional JavaScript value is a        *)
(* sequence of length at most one: Undef is <<>>, Some(v) is <<v>>.        *)
(***************************************************************************)
EXTENDS Integers, Sequences, FiniteSets, TLC

(***************************************************************************)
(* Bounds of the model.                                                    *)
(***************************************************************************)
NumProcs == 2
MaxId == 2
MaxTime == 1
MaxItems == 2
MaxReqs == 3
MaxSeqReqs == 2
MaxStartReqs == 2
MaxGateReqs == 3
MaxReadReqs == 3
MaxFaultReqs == 2
MaxPutReqs == 3
MaxPathReqs == 3

Procs == 1..NumProcs

(***************************************************************************)
(* JavaScript values.                                                      *)
(***************************************************************************)
Undef == <<>>
Some(v) == <<v>>

\* body[name] for a key the body may not carry: undefined when it is absent.
Field(body, name) == IF name \in DOMAIN body THEN body[name] ELSE Undef

\* null as the value of a key of a JSON body or of a column
JsNull == <<"null">>

\* !x for an optional string: undefined, null and "" are falsy.
Falsy(x) == x = Undef \/ x[1] = JsNull \/ x[1] = <<>>
Truthy(x) == ~Falsy(x)

\* `${x}` : the template literal of an optional string.
TemplateStr(x) ==
    IF x = Undef THEN <<"u","n","d","e","f","i","n","e","d">>
    ELSE IF x[1] = JsNull THEN <<"n","u","l","l">> ELSE x[1]

Digit(d) == <<"0","1","2","3","4","5","6","7","8","9">>[d + 1]

RECURSIVE NumStr(_)
\* `${n}` : the decimal digits of a natural number.
NumStr(n) == IF n < 10 THEN <<Digit(n)>> ELSE NumStr(n \div 10) \o <<Digit(n % 10)>>

Letters ==
    {"a","b","c","d","e","f","g","h","i","j","k","l","m","n","o","p","q","r",
     "s","t","u","v","w","x","y","z","A","B","C","D","E","F","G","H","I","J",
     "K","L","M","N","O","P","Q","R","S","T","U","V","W","X","Y","Z"}

Digits == {"0","1","2","3","4","5","6","7","8","9"}

LineTerminators == {"\n", "\r"}

\* s.startsWith(p)
StartsWith(s, p) == Len(s) >= Len(p) /\ SubSeq(s, 1, Len(p)) = p

\* s.includes(c) for a one-character c
Includes(s, c) == \E i \in 1..Len(s) : s[i] = c

\* s.endsWith(p)
EndsWith(s, p) == Len(s) >= Len(p) /\ SubSeq(s, Len(s) - Len(p) + 1, Len(s)) = p

\* s.slice(n)
Drop(s, n) == SubSeq(s, n + 1, Len(s))

UpperCase ==
    <<"A","B","C","D","E","F","G","H","I","J","K","L","M","N","O","P","Q","R",
      "S","T","U","V","W","X","Y","Z","Ñ">>
LowerCase ==
    <<"a","b","c","d","e","f","g","h","i","j","k","l","m","n","o","p","q","r",
      "s","t","u","v","w","x","y","z","ñ">>

\* c.toLowerCase() and c.toUpperCase() for one character
Lower(c) ==
    IF \E i \in DOMAIN UpperCase : UpperCase[i] = c
    THEN LowerCase[CHOOSE i \in DOMAIN UpperCase : UpperCase[i] = c] ELSE c
Upper(c) ==
    IF \E i \in DOMAIN LowerCase : LowerCase[i] = c
    THEN UpperCase[CHOOSE i \in DOMAIN LowerCase : LowerCase[i] = c] ELSE c

\* s.toUpperCase()
ToUpperCase(s) == [i \in DOMAIN s |-> Upper(s[i])]

Space == " "

RECURSIVE TrimStart(_)
TrimStart(s) == IF s # <<>> /\ Head(s) = Space THEN TrimStart(Tail(s)) ELSE s
RECURSIVE TrimEnd(_)
TrimEnd(s) ==
    IF s # <<>> /\ s[Len(s)] = Space THEN TrimEnd(SubSeq(s, 1, Len(s) - 1)) ELSE s

\* s.trim()
Trim(s) == TrimEnd(TrimStart(s))

RECURSIVE LetterRun(_)
\* the longest prefix of s made of letters: what ([a-zA-Z]*) captures
LetterRun(s) ==
    IF s # <<>> /\ s[1] \in Letters THEN <<s[1]>> \o LetterRun(Tail(s)) ELSE <<>>

DataImagePrefix == <<"d","a","t","a",":","i","m","a","g","e","/">>
Base64Marker == <<";","b","a","s","e","6","4",",">>

\* base64Data.match(/^data:image\/([a-zA-Z]*);base64,(.*)$/): <<>> when there is
\* no match, else <<[type, data]>>.  "." matches no line terminator and "$"
\* only the end of the input.
MatchDataUri(s) ==
    IF ~StartsWith(s, DataImagePrefix) THEN <<>>
    ELSE LET rest == Drop(s, Len(DataImagePrefix))
             type == LetterRun(rest)
             tail == Drop(rest, Len(type))
         IN IF ~StartsWith(tail, Base64Marker) THEN <<>>
            ELSE LET data == Drop(tail, Len(Base64Marker))
                 IN IF \E i \in 1..Len(data) : data[i] \in LineTerminators
                    THEN <<>>
                    ELSE <<[type |-> type, data |-> data]>>

Base64Alphabet == Letters \cup Digits \cup {"+", "/"}

\* Buffer.from(data, 'base64').length: three bytes for four characters of the
\* alphabet; decoding ends at the first "=".
BufferLength(data) ==
    LET stop == IF Includes(data, "=")
                THEN (CHOOSE i \in 1..Len(data) :
                         data[i] = "=" /\ \A j \in 1..(i - 1) : data[j] # "=") - 1
                ELSE Len(data)
        chars == SelectSeq(SubSeq(data, 1, stop), LAMBDA c : c \in Base64Alphabet)
    IN (Len(chars) * 3) \div 4

\* A saveImageLocally that takes the identifier as it comes.
RawEquipoId(equipoId) == equipoId

\* equipoId.replace(/[^a-zA-Z0-9]/g, '')
SafeEquipoId(equipoId) == SelectSeq(equipoId, LAMBDA c : c \in Letters \cup Digits)


(***************************************************************************)
(* Paths (module "path") and the local file system.  A path is a string;   *)
(* the file system is the set of the regular files that exist, fsFiles,    *)
(* and the set of the directories that exist, fsDirs.                      *)
(***************************************************************************)
RECURSIVE SplitPath(_)
\* p.split('/')
SplitPath(p) ==
    IF ~Includes(p, "/") THEN <<p>>
    ELSE LET i == CHOOSE k \in 1..Len(p) :
                     p[k] = "/" /\ \A j \in 1..(k - 1) : p[j] # "/"
         IN <<SubSeq(p, 1, i - 1)>> \o SplitPath(Drop(p, i))

RECURSIVE ResolveSegments(_, _)
\* path.normalize on the segments of an absolute path: "" and "." are
\* dropped, ".." removes the segment before it and is dropped at the root.
ResolveSegments(segs, acc) ==
    IF segs = <<>> THEN acc
    ELSE LET s == Head(segs)
         IN IF s = <<>> \/ s = <<".">> THEN ResolveSegments(Tail(segs), acc)
            ELSE IF s = <<".", ".">>
                 THEN ResolveSegments(Tail(segs),
                          IF acc = <<>> THEN acc ELSE SubSeq(acc, 1, Len(acc) - 1))
                 ELSE ResolveSegments(Tail(segs), Append(acc, s))

RECURSIVE JoinSegments(_)
JoinSegments(segs) ==
    IF segs = <<>> THEN <<>> ELSE <<"/">> \o Head(segs) \o JoinSegments(Tail(segs))

\* path.join(dir, name) for an absolute dir: the two are joined by "/" and the
\* result is normalized; a trailing "/" is kept.
PathJoin(dir, name) ==
    LET raw == dir \o <<"/">> \o name
        segs == ResolveSegments(SplitPath(raw), <<>>)
    IN IF segs = <<>> THEN <<"/">>
       ELSE JoinSegments(segs) \o (IF raw[Len(raw)] = "/" THEN <<"/">> ELSE <<>>)

\* __dirname
AppDir == <<"/","a","p","p">>

\* const UPLOADS_DIR = path.join(__dirname, 'uploads')
UPLOADS_DIR == PathJoin(AppDir, <<"u","p","l","o","a","d","s">>)

\* fs.existsSync(path)
ExistsSync(fsFiles, fsDirs, path) == path \in fsFiles \/ path \in fsDirs

(***************************************************************************)
(* Attachment persistence.                                                 *)
(***************************************************************************)
NoSave == [ok |-> FALSE, filename |-> <<>>, url |-> <<>>, size |-> 0,
           path |-> <<>>, dir |-> <<>>, type |-> <<>>]

UploadsUrlPrefix == <<"/","u","p","l","o","a","d","s","/">>

\* A saveImageLocally whose pattern takes any subtype up to the ";":
\* /^data:image\/([^;]*);base64,(.*)$/
saveImageAnySubtype(base64Data, equipoId, imageIndex, t) ==
    IF Falsy(base64Data) \/ ~Includes(base64Data[1], ",") THEN NoSave
    ELSE LET s == base64Data[1]
             rest == Drop(s, Len(DataImagePrefix))
             semi == IF Includes(rest, ";")
                     THEN CHOOSE k \in 1..Len(rest) :
                              rest[k] = ";" /\ \A j \in 1..(k - 1) : rest[j] # ";"
                     ELSE Len(rest) + 1
             imageType == SubSeq(rest, 1, semi - 1)
             tail == Drop(rest, semi - 1)
             safeEquipoId == SafeEquipoId(equipoId)
             fileName == NumStr(t) \o <<"-">> \o NumStr(imageIndex)
                             \o <<".">> \o imageType
             relativeFilePath == safeEquipoId \o <<"/">> \o fileName
         IN IF ~StartsWith(s, DataImagePrefix) \/ ~StartsWith(tail, Base64Marker)
            THEN NoSave
            ELSE [ok |-> TRUE,
                  filename |-> relativeFilePath,
                  url |-> UploadsUrlPrefix \o relativeFilePath,
                  size |-> BufferLength(Drop(tail, Len(Base64Marker))),
                  path |-> PathJoin(UPLOADS_DIR, relativeFilePath),
                  dir |-> PathJoin(UPLOADS_DIR, safeEquipoId),
                  type |-> imageType]

\* saveImageLocally(base64Data, equipoId, imageIndex) run at time t: the
\* value returned (ok = FALSE for null) with the file written (path) and the
\* directory made (dir).
saveImageLocally(base64Data, equipoId, imageIndex, t) ==
    IF Falsy(base64Data) \/ ~Includes(base64Data[1], ",") THEN NoSave
    ELSE LET matches == MatchDataUri(base64Data[1])
         IN IF matches = <<>> THEN NoSave
            ELSE LET imageType == matches[1].type
                     safeEquipoId == SafeEquipoId(equipoId)
                     equipoDir == PathJoin(UPLOADS_DIR, safeEquipoId)
                     fileName == NumStr(t) \o <<"-">> \o NumStr(imageIndex)
                                     \o <<".">> \o imageType
                     relativeFilePath == safeEquipoId \o <<"/">> \o fileName
                 IN [ok |-> TRUE,
                     filename |-> relativeFilePath,
                     url |-> UploadsUrlPrefix \o relativeFilePath,
                     size |-> BufferLength(matches[1].data),
                     path |-> PathJoin(UPLOADS_DIR, relativeFilePath),
                     dir |-> equipoDir,
                     type |-> imageType]

\* supabase.storage.from('imagenes-soporte').getPublicUrl(fileName)
PublicUrlPrefix ==
    <<"h","t","t","p","s",":","/","/","x",".","s","u","p","a","b","a","s","e",
      ".","c","o","/">>

getPublicUrl(fileName) == PublicUrlPrefix \o fileName

\* uploadImageToSupabase(base64Data, equipoId, imageIndex) run at time t
\* against the bucket contents bucket: the value returned (ok = FALSE for
\* null) and the object key uploaded.  With upsert: false the upload of a
\* key the bucket already holds is answered with an error.
uploadImageToSupabase(base64Data, equipoId, imageIndex, t, bucket) ==
    IF Falsy(base64Data) \/ ~Includes(base64Data[1], ",") THEN NoSave
    ELSE LET matches == MatchDataUri(base64Data[1])
         IN IF matches = <<>> THEN NoSave
            ELSE LET imageType == matches[1].type
                     fileName == equipoId \o <<"/">> \o NumStr(t) \o <<"-">>
                                     \o NumStr(imageIndex) \o <<".">> \o imageType
                 IN IF fileName \in bucket THEN NoSave
                    ELSE [ok |-> TRUE,
                          filename |-> fileName,
                          url |-> getPublicUrl(fileName),
                          size |-> BufferLength(matches[1].data),
                          path |-> fileName,
                          dir |-> <<>>,
                          type |-> imageType]

HttpPrefix == <<"h","t","t","p">>

\* deleteImageLocally(filename): the files left on disk.  A hosted URL is
\* kept; unlinkSync of a directory throws and the error is swallowed.
deleteImageLocally(filename, fsFiles, fsDirs) ==
    IF StartsWith(filename, HttpPrefix) THEN fsFiles
    ELSE LET fullPath == PathJoin(UPLOADS_DIR, filename)
         IN IF fullPath \in fsFiles THEN fsFiles \ {fullPath} ELSE fsFiles


(***************************************************************************)
(* The table "computadores" (CREATE TABLE of initializeSupabase).  A row   *)
(* holds the columns written by the handlers below; the optional text      *)
(* columns (placa_ml, latitud, longitud, direccion_automatica,             *)
(* ubicacion_manual, observaciones, problemas_detectados, revisor) are     *)
(* copied by the handlers like "responsable" and take part in no decision. *)
(***************************************************************************)
Operativo == <<"o","p","e","r","a","t","i","v","o">>
Mantenimiento == <<"m","a","n","t","e","n","i","m","i","e","n","t","o">>
Danado == <<"d","a","ñ","a","d","o">>
Si == <<"s","i">>
No == <<"n","o">>

\* CHECK (estado IN ('operativo', 'mantenimiento', 'dañado'))
EstadoCheck(v) == v \in {Operativo, Mantenimiento, Danado}

\* CHECK (windows_update IN ('si', 'no'))
WindowsUpdateCheck(v) == v \in {Si, No}

RequiredFields ==
    <<"equipo_id", "serial_number", "responsable", "cargo", "estado", "windows_update">>

\* A NOT NULL column left without a value: error 23502.
NotNullViolation(values) ==
    \/ values.equipo_id = Undef
    \/ values.serial_number = Undef
    \/ values.responsable = Undef
    \/ values.cargo = Undef
    \/ values.estado = Undef
    \/ values.windows_update = Undef

\* A row with null in a NOT NULL column: error 23502.
NullInRow(row) ==
    \E i \in DOMAIN RequiredFields : row[RequiredFields[i]] = JsNull

\* A CHECK constraint violated by a row: error 23514.
CheckViolation(row) ==
    ~EstadoCheck(row.estado) \/ ~WindowsUpdateCheck(row.windows_update)

\* A table without the unique index on equipo_id.
NoUniqueIndex(table, row) == FALSE

\* equipo_id VARCHAR(100) UNIQUE: error 23505 when another row holds the value.
UniqueViolation(table, row) ==
    \E j \in DOMAIN table : j # row.id /\ table[j].equipo_id = row.equipo_id

\* latitud DECIMAL(10, 8), longitud DECIMAL(11, 8): a coordinate, counted in
\* units of 10^-9 degree, is rounded to 8 decimals when it is stored.  The
\* column is null (Undef) when no value is given.
Decimal8(v) == IF v = Undef THEN Undef ELSE Some(((v[1] + 5) \div 10) * 10)

\* The value of a column that may hold null, for a value of a JSON body.
Column(v) == IF v = Some(JsNull) THEN Undef ELSE v

\* The row an INSERT of values builds: id from the SERIAL sequence, both
\* timestamps from DEFAULT CURRENT_TIMESTAMP, null in the optional columns
\* that got no value.
InsertedRow(values, serial, t) ==
    [id |-> serial,
     equipo_id |-> values.equipo_id[1],
     serial_number |-> values.serial_number[1],
     placa_ml |-> Column(values.placa_ml),
     latitud |-> Decimal8(values.latitud),
     longitud |-> Decimal8(values.longitud),
     direccion_automatica |-> Column(values.direccion_automatica),
     ubicacion_manual |-> Column(values.ubicacion_manual),
     responsable |-> values.responsable[1],
     cargo |-> values.cargo[1],
     estado |-> values.estado[1],
     windows_update |-> values.windows_update[1],
     imagenes |-> values.imagenes,
     observaciones |-> Column(values.observaciones),
     problemas_detectados |-> Column(values.problemas_detectados),
     revisor |-> Column(values.revisor),
     fecha_revision |-> t,
     fecha_actualizacion |-> t]

\* The error code of supabase.from('computadores').insert([values]), "" when
\* the row is inserted.  The row constraints (NOT NULL, CHECK) are checked
\* before the unique index.
InsertError(table, values, serial, t) ==
    IF NotNullViolation(values) THEN "23502"
    ELSE IF CheckViolation(InsertedRow(values, serial, t)) THEN "23514"
    ELSE IF UniqueViolation(table, InsertedRow(values, serial, t)) THEN "23505"
    ELSE ""

\* An update that blanks the column of a key whose value is undefined.
PatchedBlank(old, new) == IF new = Undef THEN <<>> ELSE new[1]

\* A column of the row after update(values): a key whose value is undefined
\* is left out of the JSON body of the request and its column is kept.
Patched(old, new) == IF new = Undef THEN old ELSE new[1]

\* The same for a column that may hold null.
PatchedOpt(old, new) == IF new = Undef THEN old ELSE Column(new)

\* An update that appends the submitted list to the stored one and leaves
\* fecha_actualizacion alone.
UpdatedRowMerge(old, values) ==
    [id |-> old.id,
     equipo_id |-> Patched(old.equipo_id, values.equipo_id),
     serial_number |-> Patched(old.serial_number, values.serial_number),
     responsable |-> Patched(old.responsable, values.responsable),
     cargo |-> Patched(old.cargo, values.cargo),
     estado |-> Patched(old.estado, values.estado),
     windows_update |-> Patched(old.windows_update, values.windows_update),
     placa_ml |-> PatchedOpt(old.placa_ml, values.placa_ml),
     latitud |-> PatchedOpt(old.latitud, Decimal8(values.latitud)),
     longitud |-> PatchedOpt(old.longitud, Decimal8(values.longitud)),
     direccion_automatica |->
         PatchedOpt(old.direccion_automatica, values.direccion_automatica),
     ubicacion_manual |-> PatchedOpt(old.ubicacion_manual, values.ubicacion_manual),
     observaciones |-> PatchedOpt(old.observaciones, values.observaciones),
     problemas_detectados |->
         PatchedOpt(old.problemas_detectados, values.problemas_detectados),
     revisor |-> PatchedOpt(old.revisor, values.revisor),
     imagenes |-> old.imagenes \o values.imagenes,
     fecha_revision |-> old.fecha_revision,
     fecha_actualizacion |-> old.fecha_actualizacion]

UpdatedRow(old, values) ==
    [id |-> old.id,
     equipo_id |-> Patched(old.equipo_id, values.equipo_id),
     serial_number |-> Patched(old.serial_number, values.serial_number),
     responsable |-> Patched(old.responsable, values.responsable),
     cargo |-> Patched(old.cargo, values.cargo),
     estado |-> Patched(old.estado, values.estado),
     windows_update |-> Patched(old.windows_update, values.windows_update),
     placa_ml |-> PatchedOpt(old.placa_ml, values.placa_ml),
     latitud |-> PatchedOpt(old.latitud, Decimal8(values.latitud)),
     longitud |-> PatchedOpt(old.longitud, Decimal8(values.longitud)),
     direccion_automatica |->
         PatchedOpt(old.direccion_automatica, values.direccion_automatica),
     ubicacion_manual |-> PatchedOpt(old.ubicacion_manual, values.ubicacion_manual),
     observaciones |-> PatchedOpt(old.observaciones, values.observaciones),
     problemas_detectados |->
         PatchedOpt(old.problemas_detectados, values.problemas_detectados),
     revisor |-> PatchedOpt(old.revisor, values.revisor),
     imagenes |-> values.imagenes,
     fecha_revision |-> old.fecha_revision,
     fecha_actualizacion |-> values.fecha_actualizacion]

\* The error code of update(values).eq('id', id), "" when it succeeds (also
\* when no row matches).
UpdateError(table, id, values) ==
    IF id \notin DOMAIN table THEN ""
    ELSE IF NullInRow(UpdatedRow(table[id], values)) THEN "23502"
    ELSE IF CheckViolation(UpdatedRow(table[id], values)) THEN "23514"
    ELSE IF UniqueViolation(table, UpdatedRow(table[id], values)) THEN "23505"
    ELSE ""

\* error.message of the remote error with the given code
VendorMessage(code) ==
    CASE code = "23505" -> "duplicate key value violates unique constraint"
      [] code = "23514" -> "new row violates check constraint"
      [] code = "23502" -> "null value in column violates not-null constraint"
      [] code = "57014" -> "canceling statement due to statement timeout"
      [] code = "42P01" -> "relation does not exist"
      [] OTHER -> "remote error"

(***************************************************************************)
(* Responses.                                                              *)
(***************************************************************************)
NoResp ==
    [status |-> 0, error |-> "", details |-> "", code |-> "", required |-> <<>>,
     message |-> "", id |-> 0, equipo_id |-> <<>>, serial_number |-> <<>>,
     imagenes_guardadas |-> -1, data |-> <<>>, stats |-> Undef]

\* handleSupabaseError(error, res, operation) for an error with the given code
handleSupabaseError(code) ==
    LET statusCode == IF code \in {"23505", "23514", "23502"} THEN 400 ELSE 500
        message == CASE code = "23505" -> "El ID del equipo ya existe"
                     [] code = "23514" -> "Valor no válido"
                     [] code = "23502" -> "Campo requerido faltante"
                     [] OTHER -> "Error interno del servidor"
        details == CASE code = "23505" -> "El identificador del equipo debe ser único"
                     [] code = "23514" ->
                            "El valor proporcionado no cumple con las restricciones"
                     [] OTHER -> VendorMessage(code)
    IN [NoResp EXCEPT !.status = statusCode, !.error = message,
                      !.details = details,
                      !.code = IF code = "" THEN "SUPABASE_ERROR" ELSE code]


(***************************************************************************)
(* Attachment descriptors of a request and entries of a stored list.       *)
(***************************************************************************)
ImagenPrefix == <<"I","m","a","g","e","n"," ">>

\* imagen.title || `Imagen ${i + 1}` for the item at position i (from 1)
TitleOr(title, i) == IF Falsy(title) THEN ImagenPrefix \o NumStr(i) ELSE title[1]

\* imagen.size || 0
SizeOr(size) == IF size = Undef THEN 0 ELSE size[1]

\* imagen.fecha_subida || new Date().toISOString()
FechaOr(fecha, t) == IF fecha = Undef THEN t ELSE fecha[1]

\* Array.isArray(imagenes) of a body whose 'imagenes' is absent, null, a
\* string, an object with indexes and a length, or an array
IsArray(imagenes) == imagenes.kind = "array"

\* The loop of the hybrid create handler over items i..Len(items), from the
\* list, files and directories of acc.
RECURSIVE CreateLoopLocal(_, _, _, _, _)
CreateLoopLocal(items, i, equipo_id, t, acc) ==
    IF i > Len(items) THEN acc
    ELSE LET imagen == items[i]
             resultado == IF Truthy(imagen.base64)
                          THEN saveImageLocally(imagen.base64, equipo_id, i, t)
                          ELSE NoSave
         IN CreateLoopLocal(items, i + 1, equipo_id, t,
                IF resultado.ok
                THEN [imgs |-> Append(acc.imgs,
                                  [title |-> TitleOr(imagen.title, i),
                                   filename |-> resultado.filename,
                                   url |-> Some(resultado.url),
                                   size |-> resultado.size,
                                   fecha_subida |-> t]),
                      files |-> acc.files \cup {resultado.path},
                      dirs |-> acc.dirs \cup {resultado.dir}]
                ELSE acc)

DataImage == <<"d","a","t","a",":","i","m","a","g","e">>
UpdateSuffix == <<"-","u","p","d","a","t","e">>

\* imagen.base64 && imagen.base64.startsWith('data:image')
IsNewImage(imagen) == Truthy(imagen.base64) /\ StartsWith(imagen.base64[1], DataImage)

\* The loop of the hybrid update handler.
RECURSIVE UpdateLoopLocal(_, _, _, _, _)
UpdateLoopLocal(items, i, equipo_id, t, acc) ==
    IF i > Len(items) THEN acc
    ELSE LET imagen == items[i]
             resultado == IF IsNewImage(imagen)
                          THEN saveImageLocally(imagen.base64,
                                   TemplateStr(equipo_id) \o UpdateSuffix, i, t)
                          ELSE NoSave
             next ==
                 IF IsNewImage(imagen)
                 THEN IF resultado.ok
                      THEN [imgs |-> Append(acc.imgs,
                                        [title |-> TitleOr(imagen.title, i),
                                         filename |-> resultado.filename,
                                         url |-> Some(resultado.url),
                                         size |-> resultado.size,
                                         fecha_subida |-> t]),
                            files |-> acc.files \cup {resultado.path},
                            dirs |-> acc.dirs \cup {resultado.dir}]
                      ELSE acc
                 ELSE IF Truthy(imagen.filename)
                 THEN IF StartsWith(imagen.filename[1], HttpPrefix)
                      THEN [acc EXCEPT !.imgs = Append(@,
                                [title |-> TitleOr(imagen.title, i),
                                 filename |-> imagen.filename[1],
                                 url |-> Some(imagen.filename[1]),
                                 size |-> SizeOr(imagen.size),
                                 fecha_subida |-> FechaOr(imagen.fecha_subida, t)])]
                      ELSE IF ExistsSync(acc.files, acc.dirs,
                                  PathJoin(UPLOADS_DIR, imagen.filename[1]))
                      THEN [acc EXCEPT !.imgs = Append(@,
                                [title |-> TitleOr(imagen.title, i),
                                 filename |-> imagen.filename[1],
                                 url |-> imagen.url,
                                 size |-> SizeOr(imagen.size),
                                 fecha_subida |-> FechaOr(imagen.fecha_subida, t)])]
                      ELSE acc
                 ELSE acc
         IN UpdateLoopLocal(items, i + 1, equipo_id, t, next)

\* The loop of the hybrid delete handler: deleteImageLocally for every entry
\* that has a filename.
\* A loop whose deleteImageLocally has no try/catch: the unlinkSync of a
\* directory throws and ends the loop.
RECURSIVE DeleteLoopNoCatch(_, _, _)
DeleteLoopNoCatch(imagenes, fsFiles, fsDirs) ==
    IF imagenes = <<>> THEN fsFiles
    ELSE IF /\ Head(imagenes).filename # <<>>
            /\ ~StartsWith(Head(imagenes).filename, HttpPrefix)
            /\ PathJoin(UPLOADS_DIR, Head(imagenes).filename) \in fsDirs
    THEN fsFiles
    ELSE DeleteLoopNoCatch(Tail(imagenes),
             IF Head(imagenes).filename # <<>>
             THEN deleteImageLocally(Head(imagenes).filename, fsFiles, fsDirs)
             ELSE fsFiles,
             fsDirs)

RECURSIVE DeleteLoopLocal(_, _, _)
DeleteLoopLocal(imagenes, fsFiles, fsDirs) ==
    IF imagenes = <<>> THEN fsFiles
    ELSE DeleteLoopLocal(Tail(imagenes),
             IF Head(imagenes).filename # <<>>
             THEN deleteImageLocally(Head(imagenes).filename, fsFiles, fsDirs)
             ELSE fsFiles,
             fsDirs)

(***************************************************************************)
(* State.                                                                  *)
(*   variant  which server runs: "hosted" (lines 1-815) or "hybrid"        *)
(*   now      Date.now(), in milliseconds                                  *)
(*   db       the rows of "computadores", by id                            *)
(*   nextId   the next value of the SERIAL sequence of column id           *)
(*   files    the regular files on the local disk                          *)
(*   dirs     the directories on the local disk                            *)
(*   objects  the keys of the objects of bucket "imagenes-soporte"         *)
(*   pc       where each request in flight stands                          *)
(*   loc      the local variables of each request's handler                *)
(*   resp     the response sent for each request                           *)
(*   nreq     the number of requests received so far                       *)
(***************************************************************************)
VARIABLES variant, now, db, nextId, files, dirs, objects, pc, loc, resp, nreq,
          dbInitialized, server, exitCode, remote

vars ==
    <<variant, now, db, nextId, files, dirs, objects, pc, loc, resp, nreq,
      dbInitialized, server, exitCode, remote>>

\* The variables of the process and of the remote service, which no step of
\* a request handler changes.
process == <<dbInitialized, server, exitCode, remote>>

NoValues ==
    [equipo_id |-> Undef, serial_number |-> Undef, placa_ml |-> Undef,
     latitud |-> Undef, longitud |-> Undef, direccion_automatica |-> Undef,
     ubicacion_manual |-> Undef, responsable |-> Undef,
     cargo |-> Undef, estado |-> Undef, windows_update |-> Undef,
     observaciones |-> Undef, problemas_detectados |-> Undef, revisor |-> Undef,
     imagenes |-> <<>>, fecha_actualizacion |-> 0]

NoLoc ==
    [op |-> "none", id |-> 0, values |-> NoValues, items |-> <<>>, idx |-> 0,
     computador |-> Undef, data |-> <<>>, query |-> Undef, errors |-> {},
     isArray |-> FALSE]

\* What is left of a handler's variables once it has answered: the request
\* line (method, :id and query).
Finished(l) ==
    [NoLoc EXCEPT !.op = l.op, !.id = l.id, !.query = l.query, !.errors = l.errors]

\* The error objects the remote service has returned to a request.
Raised(l, code) == IF code = "" THEN l ELSE [l EXCEPT !.errors = @ \cup {code}]

EmptyTable == [j \in {} |-> NoValues]

\* The answer of the remote service when nothing is wrong with it.
Ok == "ok"

\* The module is loaded: let dbInitialized = false, no request yet, an empty
\* table, an empty bucket and an empty uploads directory.
Loaded ==
    /\ variant \in {"hosted", "hybrid"}
    /\ now = 0
    /\ db = EmptyTable
    /\ nextId = 1
    /\ files = {}
    /\ dirs = {<<"/">>, AppDir, UPLOADS_DIR}
    /\ objects = {}
    /\ pc = [p \in Procs |-> "idle"]
    /\ loc = [p \in Procs |-> NoLoc]
    /\ resp = [p \in Procs |-> NoResp]
    /\ nreq = 0
    /\ exitCode = -1

\* The server once startServer() has run to app.listen with the table
\* verified and the remote service answering.
Init ==
    /\ Loaded
    /\ dbInitialized = TRUE
    /\ server = "listening"
    /\ remote = Ok

\* The fields of a request body that the handlers copy to the table.
BodyValues(body) ==
    [NoValues EXCEPT !.equipo_id = body.equipo_id,
                     !.serial_number = body.serial_number,
                     !.placa_ml = Field(body, "placa_ml"),
                     !.latitud = Field(body, "latitud"),
                     !.longitud = Field(body, "longitud"),
                     !.direccion_automatica = Field(body, "direccion_automatica"),
                     !.ubicacion_manual = Field(body, "ubicacion_manual"),
                     !.responsable = body.responsable,
                     !.cargo = body.cargo,
                     !.estado = body.estado,
                     !.windows_update = body.windows_update,
                     !.observaciones = Field(body, "observaciones"),
                     !.problemas_detectados = Field(body, "problemas_detectados"),
                     !.revisor = Field(body, "revisor")]

\* Loops that run over whatever 'imagenes' holds at its indexes.
BodyItemsNoArrayTest(body) == body.imagenes.items

\* The items the loops run over: none unless 'imagenes' is an array.
BodyItems(body) == IF IsArray(body.imagenes) THEN body.imagenes.items ELSE <<>>

\* A validation that forgets 'cargo'.
MissingRequiredButCargo(body) ==
    \/ Falsy(body.equipo_id)
    \/ Falsy(body.serial_number)
    \/ Falsy(body.responsable)
    \/ Falsy(body.estado)
    \/ Falsy(body.windows_update)

\* if (!equipo_id || !serial_number || !responsable || !cargo || !estado ||
\*     !windows_update)
MissingRequired(body) ==
    \/ Falsy(body.equipo_id)
    \/ Falsy(body.serial_number)
    \/ Falsy(body.responsable)
    \/ Falsy(body.cargo)
    \/ Falsy(body.estado)
    \/ Falsy(body.windows_update)

\* The requests that hold a value of the id sequence or will take one.
PendingInserts == {q \in Procs : pc[q] \in {"post_upload", "post_insert"}}


(***************************************************************************)
(* POST /api/computadores                                                  *)
(***************************************************************************)
\* The handler up to its first await.  A body with a required field missing
\* is answered at once.  The hybrid variant runs its whole image loop (it
\* has no await) and sends the insert; the hosted variant starts its loop
\* of uploads.
Post(p, body) ==
    /\ pc[p] = "idle"
    /\ nextId + Cardinality(PendingInserts) <= MaxId
    /\ IF MissingRequired(body)
       THEN /\ resp' = [resp EXCEPT ![p] =
                   [NoResp EXCEPT !.status = 400,
                                  !.error = "Campos requeridos faltantes",
                                  !.required = RequiredFields]]
            /\ pc' = [pc EXCEPT ![p] = "done"]
            /\ loc' = [loc EXCEPT ![p] = [NoLoc EXCEPT !.op = "post"]]
            /\ UNCHANGED <<files, dirs>>
       ELSE IF variant = "hybrid"
       THEN LET r == CreateLoopLocal(BodyItems(body), 1, body.equipo_id[1], now,
                         [imgs |-> <<>>, files |-> files, dirs |-> dirs])
            IN /\ files' = r.files
               /\ dirs' = r.dirs
               /\ loc' = [loc EXCEPT ![p] =
                      [NoLoc EXCEPT !.op = "post",
                                    !.values = [BodyValues(body) EXCEPT
                                                   !.imagenes = r.imgs],
                                    !.items = BodyItems(body),
                                    !.isArray = IsArray(body.imagenes),
                                    !.idx = Len(BodyItems(body)) + 1]]
               /\ pc' = [pc EXCEPT ![p] = "post_insert"]
               /\ UNCHANGED resp
       ELSE /\ loc' = [loc EXCEPT ![p] =
                   [NoLoc EXCEPT !.op = "post",
                                 !.values = BodyValues(body),
                                 !.items = BodyItems(body),
                                 !.isArray = IsArray(body.imagenes),
                                 !.idx = 1]]
            /\ pc' = [pc EXCEPT ![p] =
                   IF BodyItems(body) = <<>> THEN "post_insert" ELSE "post_upload"]
            /\ UNCHANGED <<resp, files, dirs>>
    /\ UNCHANGED <<variant, now, db, nextId, objects>>

\* Hosted variant: one turn of the create loop, with its awaited upload.
PostUpload(p) ==
    /\ pc[p] = "post_upload"
    /\ LET i == loc[p].idx
           imagen == loc[p].items[i]
           resultado == IF Truthy(imagen.base64)
                        THEN uploadImageToSupabase(imagen.base64,
                                 loc[p].values.equipo_id[1], i, now, objects)
                        ELSE NoSave
       IN /\ objects' = IF resultado.ok THEN objects \cup {resultado.path}
                        ELSE objects
          /\ loc' = [loc EXCEPT
                 ![p].idx = i + 1,
                 ![p].values.imagenes =
                     IF resultado.ok
                     THEN Append(@, [title |-> TitleOr(imagen.title, i),
                                     filename |-> resultado.filename,
                                     url |-> Some(resultado.url),
                                     fecha_subida |-> now])
                     ELSE @]
          /\ pc' = [pc EXCEPT ![p] =
                 IF i = Len(loc[p].items) THEN "post_insert" ELSE "post_upload"]
    /\ UNCHANGED <<variant, now, db, nextId, files, dirs, resp>>

\* An insert that, when the row is refused, removes what the request has
\* persisted: the handler has no such step.
PostInsertRollsBack(p) ==
    /\ pc[p] = "post_insert"
    /\ LET values == loc[p].values
           code == IF remote # Ok THEN remote
                   ELSE InsertError(db, values, nextId, now)
           names == {values.imagenes[i].filename : i \in DOMAIN values.imagenes}
       IN IF code = ""
          THEN LET data == InsertedRow(values, nextId, now)
               IN /\ db' = [j \in DOMAIN db \cup {nextId} |->
                               IF j = nextId THEN data ELSE db[j]]
                  /\ resp' = [resp EXCEPT ![p] =
                         [NoResp EXCEPT !.status = 201,
                                        !.id = data.id,
                                        !.equipo_id = data.equipo_id,
                                        !.serial_number = data.serial_number,
                                        !.imagenes_guardadas = Len(values.imagenes),
                                        !.message = "Registro creado exitosamente"]]
                  /\ UNCHANGED <<files, objects>>
          ELSE /\ db' = db
               /\ resp' = [resp EXCEPT ![p] = handleSupabaseError(code)]
               /\ files' = files \ {PathJoin(UPLOADS_DIR, n) : n \in names}
               /\ objects' = objects \ names
    /\ nextId' = IF remote = Ok THEN nextId + 1 ELSE nextId
    /\ pc' = [pc EXCEPT ![p] = "done"]
    /\ loc' = [loc EXCEPT ![p] =
           Finished(Raised(@, IF remote # Ok THEN remote
                              ELSE InsertError(db, @.values, nextId, now)))]
    /\ UNCHANGED <<variant, now, dirs>>

\* The insert reaches the table and the handler answers.  The sequence of
\* column id moves on whether or not the row is accepted.  A remote service
\* that fails answers with its error and applies nothing.
PostInsert(p) ==
    /\ pc[p] = "post_insert"
    /\ LET values == loc[p].values
           code == IF remote # Ok THEN remote
                   ELSE InsertError(db, values, nextId, now)
       IN IF code = ""
          THEN LET data == InsertedRow(values, nextId, now)
               IN /\ db' = [j \in DOMAIN db \cup {nextId} |->
                               IF j = nextId THEN data ELSE db[j]]
                  /\ resp' = [resp EXCEPT ![p] =
                         [NoResp EXCEPT !.status = 201,
                                        !.id = data.id,
                                        !.equipo_id = data.equipo_id,
                                        !.serial_number = data.serial_number,
                                        !.imagenes_guardadas = Len(values.imagenes),
                                        !.message = "Registro creado exitosamente"]]
          ELSE /\ db' = db
               /\ resp' = [resp EXCEPT ![p] = handleSupabaseError(code)]
    /\ nextId' = IF remote = Ok THEN nextId + 1 ELSE nextId
    /\ pc' = [pc EXCEPT ![p] = "done"]
    /\ loc' = [loc EXCEPT ![p] =
           Finished(Raised(@, IF remote # Ok THEN remote
                              ELSE InsertError(db, @.values, nextId, now)))]
    /\ UNCHANGED <<variant, now, files, dirs, objects>>

(***************************************************************************)
(* PUT /api/computadores/:id                                               *)
(***************************************************************************)
Put(p, id, body) ==
    /\ pc[p] = "idle"
    /\ IF variant = "hybrid"
       THEN LET r == UpdateLoopLocal(BodyItems(body), 1, body.equipo_id, now,
                         [imgs |-> <<>>, files |-> files, dirs |-> dirs])
            IN /\ files' = r.files
               /\ dirs' = r.dirs
               /\ loc' = [loc EXCEPT ![p] =
                      [NoLoc EXCEPT !.op = "put",
                                    !.id = id,
                                    !.values = [BodyValues(body) EXCEPT
                                                   !.imagenes = r.imgs,
                                                   !.fecha_actualizacion = now],
                                    !.items = BodyItems(body),
                                    !.isArray = IsArray(body.imagenes),
                                    !.idx = Len(BodyItems(body)) + 1]]
               /\ pc' = [pc EXCEPT ![p] = "put_update"]
       ELSE /\ loc' = [loc EXCEPT ![p] =
                   [NoLoc EXCEPT !.op = "put",
                                 !.id = id,
                                 !.values = [BodyValues(body) EXCEPT
                                                !.fecha_actualizacion = now],
                                 !.items = BodyItems(body),
                                 !.isArray = IsArray(body.imagenes),
                                 !.idx = 1]]
            /\ pc' = [pc EXCEPT ![p] =
                   IF BodyItems(body) = <<>> THEN "put_update" ELSE "put_upload"]
            /\ UNCHANGED <<files, dirs>>
    /\ UNCHANGED <<variant, now, db, nextId, objects, resp>>

\* Hosted variant: one turn of the update loop.  The update is built, with
\* its fecha_actualizacion, when the loop ends.
PutUpload(p) ==
    /\ pc[p] = "put_upload"
    /\ LET i == loc[p].idx
           imagen == loc[p].items[i]
           resultado == IF IsNewImage(imagen)
                        THEN uploadImageToSupabase(imagen.base64,
                                 TemplateStr(loc[p].values.equipo_id) \o UpdateSuffix,
                                 i, now, objects)
                        ELSE NoSave
       IN /\ objects' = IF resultado.ok THEN objects \cup {resultado.path}
                        ELSE objects
          /\ loc' = [loc EXCEPT
                 ![p].idx = i + 1,
                 ![p].values.fecha_actualizacion = now,
                 ![p].values.imagenes =
                     IF IsNewImage(imagen)
                     THEN IF resultado.ok
                          THEN Append(@, [title |-> TitleOr(imagen.title, i),
                                          filename |-> resultado.filename,
                                          url |-> Some(resultado.url),
                                          fecha_subida |-> now])
                          ELSE @
                     ELSE IF Truthy(imagen.filename)
                     THEN Append(@, [title |-> TitleOr(imagen.title, i),
                                     filename |-> imagen.filename[1],
                                     url |-> imagen.url,
                                     fecha_subida |->
                                         FechaOr(imagen.fecha_subida, now)])
                     ELSE @]
          /\ pc' = [pc EXCEPT ![p] =
                 IF i = Len(loc[p].items) THEN "put_update" ELSE "put_upload"]
    /\ UNCHANGED <<variant, now, db, nextId, files, dirs, resp>>

\* An update handler without the test of data.length: it answers 200 whether
\* or not a row matched.
PutUpdateNoLengthTest(p) ==
    /\ pc[p] = "put_update"
    /\ LET id == loc[p].id
           values == loc[p].values
           code == IF remote # Ok THEN remote ELSE UpdateError(db, id, values)
       IN IF code # ""
          THEN /\ db' = db
               /\ resp' = [resp EXCEPT ![p] = handleSupabaseError(code)]
          ELSE /\ db' = IF id \in DOMAIN db
                        THEN [db EXCEPT ![id] = UpdatedRow(db[id], values)] ELSE db
               /\ resp' = [resp EXCEPT ![p] =
                      [NoResp EXCEPT !.status = 200,
                                     !.message = "Registro actualizado exitosamente",
                                     !.imagenes_guardadas = Len(values.imagenes)]]
    /\ pc' = [pc EXCEPT ![p] = "done"]
    /\ loc' = [loc EXCEPT ![p] =
           Finished(Raised(@, IF remote # Ok THEN remote
                              ELSE UpdateError(db, @.id, @.values)))]
    /\ UNCHANGED <<variant, now, nextId, files, dirs, objects>>

\* The update reaches the table and the handler answers.
PutUpdate(p) ==
    /\ pc[p] = "put_update"
    /\ LET id == loc[p].id
           values == loc[p].values
           code == IF remote # Ok THEN remote ELSE UpdateError(db, id, values)
       IN IF code # ""
          THEN /\ db' = db
               /\ resp' = [resp EXCEPT ![p] = handleSupabaseError(code)]
          ELSE IF id \notin DOMAIN db
          THEN /\ db' = db
               /\ resp' = [resp EXCEPT ![p] =
                      [NoResp EXCEPT !.status = 404,
                                     !.error = "Registro no encontrado"]]
          ELSE /\ db' = [db EXCEPT ![id] = UpdatedRow(db[id], values)]
               /\ resp' = [resp EXCEPT ![p] =
                      [NoResp EXCEPT !.status = 200,
                                     !.message = "Registro actualizado exitosamente",
                                     !.imagenes_guardadas = Len(values.imagenes)]]
    /\ pc' = [pc EXCEPT ![p] = "done"]
    /\ loc' = [loc EXCEPT ![p] =
           Finished(Raised(@, IF remote # Ok THEN remote
                              ELSE UpdateError(db, @.id, @.values)))]
    /\ UNCHANGED <<variant, now, nextId, files, dirs, objects>>


(***************************************************************************)
(* DELETE /api/computadores/:id                                            *)
(***************************************************************************)
\* The select of 'imagenes' before the row is deleted: computador is null
\* when no row matches (.single() gives PGRST116) and when the select fails:
\* the handler does not read the error of this call.
Delete(p, id) ==
    /\ pc[p] = "idle"
    /\ loc' = [loc EXCEPT ![p] =
           [NoLoc EXCEPT !.op = "delete",
                         !.id = id,
                         !.computador = IF remote = Ok /\ id \in DOMAIN db
                                        THEN Some(db[id].imagenes) ELSE Undef,
                         !.errors = IF remote # Ok THEN {remote}
                                    ELSE IF id \notin DOMAIN db THEN {"PGRST116"}
                                    ELSE {}]]
    /\ pc' = [pc EXCEPT ![p] = "del_row"]
    /\ UNCHANGED <<variant, now, db, nextId, files, dirs, objects, resp>>

\* A delete handler without the test of data.length: it goes on to the
\* images whether or not a row was deleted.
DelRowNoLengthTest(p) ==
    /\ pc[p] = "del_row"
    /\ LET id == loc[p].id
       IN IF remote # Ok
          THEN /\ resp' = [resp EXCEPT ![p] = handleSupabaseError(remote)]
               /\ pc' = [pc EXCEPT ![p] = "done"]
               /\ loc' = [loc EXCEPT ![p] = Finished(Raised(@, remote))]
               /\ db' = db
          ELSE /\ db' = [j \in DOMAIN db \ {id} |-> db[j]]
               /\ loc' = [loc EXCEPT
                      ![p].data = IF id \in DOMAIN db THEN <<db[id]>> ELSE <<>>,
                      ![p].idx = 1]
               /\ pc' = [pc EXCEPT ![p] = "del_files"]
               /\ resp' = resp
    /\ UNCHANGED <<variant, now, nextId, files, dirs, objects>>

\* A delete whose row stays in the table.
DelRowKeepsRow(p) ==
    /\ pc[p] = "del_row"
    /\ LET id == loc[p].id
       IN IF remote # Ok
          THEN /\ resp' = [resp EXCEPT ![p] = handleSupabaseError(remote)]
               /\ pc' = [pc EXCEPT ![p] = "done"]
               /\ loc' = [loc EXCEPT ![p] = Finished(Raised(@, remote))]
               /\ db' = db
          ELSE IF id \notin DOMAIN db
          THEN /\ resp' = [resp EXCEPT ![p] =
                      [NoResp EXCEPT !.status = 404,
                                     !.error = "Registro no encontrado"]]
               /\ pc' = [pc EXCEPT ![p] = "done"]
               /\ loc' = [loc EXCEPT ![p] = Finished(@)]
               /\ db' = db
          ELSE /\ db' = db
               /\ loc' = [loc EXCEPT ![p].data = <<db[id]>>, ![p].idx = 1]
               /\ pc' = [pc EXCEPT ![p] = "del_files"]
               /\ resp' = resp
    /\ UNCHANGED <<variant, now, nextId, files, dirs, objects>>

\* delete().eq('id', id).select(): data holds the rows deleted; with none
\* the handler answers 404.
DelRow(p) ==
    /\ pc[p] = "del_row"
    /\ LET id == loc[p].id
       IN IF remote # Ok
          THEN /\ resp' = [resp EXCEPT ![p] = handleSupabaseError(remote)]
               /\ pc' = [pc EXCEPT ![p] = "done"]
               /\ loc' = [loc EXCEPT ![p] = Finished(Raised(@, remote))]
               /\ db' = db
          ELSE IF id \notin DOMAIN db
          THEN /\ resp' = [resp EXCEPT ![p] =
                      [NoResp EXCEPT !.status = 404,
                                     !.error = "Registro no encontrado"]]
               /\ pc' = [pc EXCEPT ![p] = "done"]
               /\ loc' = [loc EXCEPT ![p] = Finished(@)]
               /\ db' = db
          ELSE /\ db' = [j \in DOMAIN db \ {id} |-> db[j]]
               /\ loc' = [loc EXCEPT ![p].data = <<db[id]>>, ![p].idx = 1]
               /\ pc' = [pc EXCEPT ![p] = "del_files"]
               /\ resp' = resp
    /\ UNCHANGED <<variant, now, nextId, files, dirs, objects>>

\* The images the delete handler loops over: those read before the delete.
ComputadorImagenes(l) == IF l.computador = Undef THEN <<>> ELSE l.computador[1]

\* Hybrid variant: the loop over computador.imagenes (it has no await) and
\* the answer.
DelFiles(p) ==
    /\ pc[p] = "del_files"
    /\ variant = "hybrid"
    /\ files' = DeleteLoopLocal(ComputadorImagenes(loc[p]), files, dirs)
    /\ resp' = [resp EXCEPT ![p] =
           [NoResp EXCEPT !.status = 200,
                          !.message = "Registro eliminado exitosamente"]]
    /\ pc' = [pc EXCEPT ![p] = "done"]
    /\ loc' = [loc EXCEPT ![p] = Finished(@)]
    /\ UNCHANGED <<variant, now, db, nextId, dirs, objects>>

\* Hosted variant: one awaited storage.remove([imagen.filename]) of the loop,
\* or, the loop over, the answer.
DelRemove(p) ==
    /\ pc[p] = "del_files"
    /\ variant = "hosted"
    /\ LET imagenes == ComputadorImagenes(loc[p])
           i == loc[p].idx
       IN IF i <= Len(imagenes)
          THEN /\ objects' = IF imagenes[i].filename # <<>>
                             THEN objects \ {imagenes[i].filename} ELSE objects
               /\ loc' = [loc EXCEPT ![p].idx = i + 1]
               /\ UNCHANGED <<pc, resp>>
          ELSE /\ resp' = [resp EXCEPT ![p] =
                      [NoResp EXCEPT !.status = 200,
                                     !.message = "Registro eliminado exitosamente"]]
               /\ pc' = [pc EXCEPT ![p] = "done"]
               /\ loc' = [loc EXCEPT ![p] = Finished(@)]
               /\ objects' = objects
    /\ UNCHANGED <<variant, now, db, nextId, files, dirs>>

(***************************************************************************)
(* GET /api/computadores/:id and GET /api/computadores                     *)
(***************************************************************************)
\* app.use('*', ...): the answer to a request that no route matches.
NoRoute(p, op, id) ==
    /\ pc[p] = "idle"
    /\ resp' = [resp EXCEPT ![p] =
           [NoResp EXCEPT !.status = 404, !.error = "Ruta no encontrada"]]
    /\ pc' = [pc EXCEPT ![p] = "done"]
    /\ loc' = [loc EXCEPT ![p] = [NoLoc EXCEPT !.op = op, !.id = id]]
    /\ UNCHANGED <<variant, now, db, nextId, files, dirs, objects>>

\* A get-one handler that answers 200 with no row when none matches.
GetOneRowNoSingle(p, id) ==
    /\ pc[p] = "idle"
    /\ resp' = [resp EXCEPT ![p] =
           IF remote # Ok THEN handleSupabaseError(remote)
           ELSE [NoResp EXCEPT !.status = 200,
                               !.data = IF id \in DOMAIN db THEN <<db[id]>> ELSE <<>>]]
    /\ pc' = [pc EXCEPT ![p] = "done"]
    /\ loc' = [loc EXCEPT ![p] =
           [NoLoc EXCEPT !.op = "getone", !.id = id,
                         !.errors = IF remote # Ok THEN {remote}
                                    ELSE IF id \notin DOMAIN db THEN {"PGRST116"}
                                    ELSE {}]]
    /\ UNCHANGED <<variant, now, db, nextId, files, dirs, objects>>

\* The hosted variant's handler: it reads the row with .single(), which
\* gives PGRST116 when no row matches; any other error goes to
\* handleSupabaseError.
GetOneRow(p, id) ==
    /\ pc[p] = "idle"
    /\ resp' = [resp EXCEPT ![p] =
           IF remote # Ok THEN handleSupabaseError(remote)
           ELSE IF id \in DOMAIN db
           THEN [NoResp EXCEPT !.status = 200, !.data = <<db[id]>>]
           ELSE [NoResp EXCEPT !.status = 404, !.error = "Computador no encontrado"]]
    /\ pc' = [pc EXCEPT ![p] = "done"]
    /\ loc' = [loc EXCEPT ![p] =
           [NoLoc EXCEPT !.op = "getone", !.id = id,
                         !.errors = IF remote # Ok THEN {remote}
                                    ELSE IF id \notin DOMAIN db THEN {"PGRST116"}
                                    ELSE {}]]
    /\ UNCHANGED <<variant, now, db, nextId, files, dirs, objects>>

\* The sequences that list the rows of ids once each, by fecha_revision
\* descending: order('fecha_revision', { ascending: false }).
Ordered(table, ids) ==
    {s \in [1..Cardinality(ids) -> ids] :
        /\ \A i, j \in DOMAIN s : i # j => s[i] # s[j]
        /\ \A i, j \in DOMAIN s :
               i < j => table[s[i]].fecha_revision >= table[s[j]].fecha_revision}

RECURSIVE Like(_, _)
\* s ILIKE pat: '%' (and PostgREST's '*') stands for any run of characters,
\* '_' for any one character, any other character for itself in either case.
Like(s, pat) ==
    IF pat = <<>> THEN s = <<>>
    ELSE IF Head(pat) \in {"%", "*"}
    THEN Like(s, Tail(pat)) \/ (s # <<>> /\ Like(Tail(s), pat))
    ELSE /\ s # <<>>
         /\ Head(pat) = "_" \/ Lower(Head(pat)) = Lower(Head(s))
         /\ Like(Tail(s), Tail(pat))

\* query.ilike(column, `%${v}%`) on a column that may be null: a null never
\* matches.
Ilike(col, v) == col # Undef /\ Like(col[1], <<"%">> \o v \o <<"%">>)

\* A query that keeps every row whatever the filters.
SelectedAll(table, query) == DOMAIN table

\* The rows the query of GET /api/computadores selects: eq('estado', estado)
\* and one ilike for each of the other four filters that is given.
Selected(table, query) ==
    {j \in DOMAIN table :
        /\ Falsy(query.estado) \/ table[j].estado = query.estado[1]
        /\ Falsy(query.responsable)
               \/ Ilike(Some(table[j].responsable), query.responsable[1])
        /\ Falsy(query.equipo_id)
               \/ Ilike(Some(table[j].equipo_id), query.equipo_id[1])
        /\ Falsy(query.serial_number)
               \/ Ilike(Some(table[j].serial_number), query.serial_number[1])
        /\ Falsy(query.revisor) \/ Ilike(table[j].revisor, query.revisor[1])}

SupabaseCo == <<"s","u","p","a","b","a","s","e",".","c","o">>

\* s.includes(sub)
IncludesStr(s, sub) ==
    \E i \in 0..(Len(s) - Len(sub)) : SubSeq(s, i + 1, i + Len(sub)) = sub

\* The hybrid variant's map of one stored list: a hosted entry takes its url
\* as filename, a local entry is kept when its file exists.
RECURSIVE ImagenesProc(_, _, _)
ImagenesProc(imagenes, fsFiles, fsDirs) ==
    IF imagenes = <<>> THEN <<>>
    ELSE LET imagen == Head(imagenes)
             rest == ImagenesProc(Tail(imagenes), fsFiles, fsDirs)
         IN IF Truthy(imagen.url) /\ IncludesStr(imagen.url[1], SupabaseCo)
            THEN <<[imagen EXCEPT !.filename = imagen.url[1]]>> \o rest
            ELSE IF imagen.filename # <<>> /\ ~StartsWith(imagen.filename, HttpPrefix)
            THEN IF ExistsSync(fsFiles, fsDirs, PathJoin(UPLOADS_DIR, imagen.filename))
                 THEN <<imagen>> \o rest
                 ELSE rest
            ELSE <<imagen>> \o rest

\* The query reaches the table.  The hosted variant answers with its rows;
\* the hybrid variant goes on to map them.
List(p, query) ==
    /\ pc[p] = "idle"
    /\ IF remote # Ok
       THEN /\ resp' = [resp EXCEPT ![p] = handleSupabaseError(remote)]
            /\ pc' = [pc EXCEPT ![p] = "done"]
            /\ loc' = [loc EXCEPT ![p] =
                   [NoLoc EXCEPT !.op = "list", !.query = Some(query),
                                 !.errors = {remote}]]
       ELSE \E s \in Ordered(db, Selected(db, query)) :
          LET data == [i \in DOMAIN s |-> db[s[i]]]
          IN IF variant = "hosted"
             THEN /\ resp' = [resp EXCEPT ![p] =
                         [NoResp EXCEPT !.status = 200, !.data = data]]
                  /\ pc' = [pc EXCEPT ![p] = "done"]
                  /\ loc' = [loc EXCEPT ![p] =
                         [NoLoc EXCEPT !.op = "list", !.query = Some(query)]]
             ELSE /\ loc' = [loc EXCEPT ![p] =
                         [NoLoc EXCEPT !.op = "list", !.data = data,
                                       !.query = Some(query)]]
                  /\ pc' = [pc EXCEPT ![p] = "list_map"]
                  /\ resp' = resp
    /\ UNCHANGED <<variant, now, db, nextId, files, dirs, objects>>

\* Hybrid variant: computadoresConImagenes and the answer.
ListMap(p) ==
    /\ pc[p] = "list_map"
    /\ resp' = [resp EXCEPT ![p] =
           [NoResp EXCEPT !.status = 200,
                          !.data = [i \in DOMAIN loc[p].data |->
                                       [loc[p].data[i] EXCEPT !.imagenes =
                                           ImagenesProc(@, files, dirs)]]]]
    /\ pc' = [pc EXCEPT ![p] = "done"]
    /\ loc' = [loc EXCEPT ![p] = Finished(@)]
    /\ UNCHANGED <<variant, now, db, nextId, files, dirs, objects>>

(***************************************************************************)
(* GET /api/estadisticas and GET /api/export/excel                         *)
(***************************************************************************)
\* The instants of one day.
TicksPerDay == 1

\* new Date(t).toDateString(): the day of an instant
ToDateString(t) == t \div TicksPerDay

\* The time of day of an instant: toLocaleTimeString
ToTimeString(t) == t % TicksPerDay

\* x && ... for a number that may be null: null and 0 are falsy.
TruthyNumber(x) == x # Undef /\ x[1] # 0

RECURSIVE SumLengthsFromOne(_, _)
\* A reduce that starts from 1.
SumLengthsFromOne(table, ids) ==
    IF ids = {} THEN 1
    ELSE LET j == CHOOSE k \in ids : TRUE
         IN Len(table[j].imagenes) + SumLengthsFromOne(table, ids \ {j})

RECURSIVE SumLengths(_, _)
\* reduce((sum, c) => sum + c.imagenes.length, 0) over the rows of ids
SumLengths(table, ids) ==
    IF ids = {} THEN 0
    ELSE LET j == CHOOSE k \in ids : TRUE
         IN Len(table[j].imagenes) + SumLengths(table, ids \ {j})

\* computadores.filter(c => c.latitud && c.longitud).length
ConUbicacion(table) ==
    Cardinality({j \in DOMAIN table :
                    TruthyNumber(table[j].latitud) /\ TruthyNumber(table[j].longitud)})

\* The object the statistics handler answers with for the rows of table on
\* the day hoy.
Estadisticas(table, hoy) ==
    LET Count(P(_)) == Cardinality({j \in DOMAIN table : P(table[j])})
        total == Cardinality(DOMAIN table)
        operativos == Count(LAMBDA c : c.estado = Operativo)
        mantenimiento == Count(LAMBDA c : c.estado = Mantenimiento)
        danados == Count(LAMBDA c : c.estado = Danado)
        windowsSi == Count(LAMBDA c : c.windows_update = Si)
        windowsNo == Count(LAMBDA c : c.windows_update = No)
        revisionesHoy == Count(LAMBDA c : ToDateString(c.fecha_revision) = hoy)
        conProblemas == Count(LAMBDA c : /\ Truthy(c.problemas_detectados)
                                         /\ Trim(c.problemas_detectados[1]) # <<>>)
        conImagenes == Count(LAMBDA c : Len(c.imagenes) > 0)
    IN [total |-> total,
        operativos |-> operativos,
        mantenimiento |-> mantenimiento,
        danados |-> danados,
        windows_si |-> windowsSi,
        windows_no |-> windowsNo,
        revisiones_hoy |-> revisionesHoy,
        con_problemas |-> conProblemas,
        con_ubicacion |-> ConUbicacion(table),
        con_imagenes |-> conImagenes,
        total_imagenes |-> SumLengths(table, DOMAIN table),
        totalEquipos |-> total,
        windowsActualizados |-> windowsSi]

\* The select reaches the table and the handler answers with the counts.
Stats(p) ==
    /\ pc[p] = "idle"
    /\ resp' = [resp EXCEPT ![p] =
           IF remote # Ok THEN handleSupabaseError(remote)
           ELSE [NoResp EXCEPT !.status = 200,
                               !.stats = Some(Estadisticas(db, ToDateString(now)))]]
    /\ pc' = [pc EXCEPT ![p] = "done"]
    /\ loc' = [loc EXCEPT ![p] = Raised([NoLoc EXCEPT !.op = "stats"],
                                         IF remote # Ok THEN remote ELSE "")]
    /\ UNCHANGED <<variant, now, db, nextId, files, dirs, objects>>

NoAsignado == <<"N","O"," ","A","S","I","G","N","A","D","O">>
NoEspecificada == <<"N","O"," ","E","S","P","E","C","I","F","I","C","A","D","A">>
Ninguno == <<"N","I","N","G","U","N","O">>
SinObservaciones ==
    <<"S","I","N"," ","O","B","S","E","R","V","A","C","I","O","N","E","S">>
NoEspecificado == <<"N","O"," ","E","S","P","E","C","I","F","I","C","A","D","O">>

\* x || fallback for an optional string
OrElse(x, fallback) == IF Truthy(x) THEN x[1] ELSE fallback

RECURSIVE JoinTitles(_)
\* row.imagenes.map(img => img.title).join('; ')
JoinTitles(imagenes) ==
    IF imagenes = <<>> THEN <<>>
    ELSE IF Len(imagenes) = 1 THEN imagenes[1].title
    ELSE imagenes[1].title \o <<";", " ">> \o JoinTitles(Tail(imagenes))

\* One line of the export.
ExcelRow(row) ==
    [id_equipo |-> row.equipo_id,
     serial |-> row.serial_number,
     placa_ml |-> OrElse(row.placa_ml, NoAsignado),
     responsable |-> row.responsable,
     cargo |-> row.cargo,
     estado |-> ToUpperCase(row.estado),
     windows_update |-> IF row.windows_update = Si THEN <<"S","Í">> ELSE <<"N","O">>,
     ubicacion |-> IF Truthy(row.direccion_automatica) THEN row.direccion_automatica[1]
                   ELSE OrElse(row.ubicacion_manual, NoEspecificada),
     problemas |-> OrElse(row.problemas_detectados, Ninguno),
     observaciones |-> OrElse(row.observaciones, SinObservaciones),
     revisor |-> OrElse(row.revisor, NoEspecificado),
     fecha_revision |-> ToDateString(row.fecha_revision),
     hora_revision |-> ToTimeString(row.fecha_revision),
     cantidad_imagenes |-> Len(row.imagenes),
     descripcion_imagenes |-> JoinTitles(row.imagenes)]

\* The select reaches the table and the handler answers with one line for
\* each row, by fecha_revision descending.
Export(p) ==
    /\ pc[p] = "idle"
    /\ IF remote # Ok
       THEN resp' = [resp EXCEPT ![p] = handleSupabaseError(remote)]
       ELSE \E s \in Ordered(db, DOMAIN db) :
               resp' = [resp EXCEPT ![p] =
                   [NoResp EXCEPT !.status = 200,
                                  !.data = [i \in DOMAIN s |-> ExcelRow(db[s[i]])]]]
    /\ pc' = [pc EXCEPT ![p] = "done"]
    /\ loc' = [loc EXCEPT ![p] = Raised([NoLoc EXCEPT !.op = "export"],
                                         IF remote # Ok THEN remote ELSE "")]
    /\ UNCHANGED <<variant, now, db, nextId, files, dirs, objects>>

(***************************************************************************)
(* The routes.                                                             *)
(***************************************************************************)
\* checkDatabase(req, res, next): next() is the handler of the route.
checkDatabase(p, op, id, handler) ==
    IF dbInitialized THEN handler
    ELSE /\ pc[p] = "idle"
         /\ resp' = [resp EXCEPT ![p] =
                [NoResp EXCEPT
                    !.status = 500,
                    !.error = "Base de datos no disponible",
                    !.details = "Supabase no se ha inicializado correctamente"]]
         /\ pc' = [pc EXCEPT ![p] = "done"]
         /\ loc' = [loc EXCEPT ![p] = [NoLoc EXCEPT !.op = op, !.id = id]]
         /\ UNCHANGED <<variant, now, db, nextId, files, dirs, objects>>

\* GET /api/computadores/:id is a route of the hosted variant alone.
GetOne(p, id) ==
    IF variant = "hosted"
    THEN checkDatabase(p, "getone", id, GetOneRow(p, id))
    ELSE NoRoute(p, "getone", id)

(***************************************************************************)
(* startServer() and the handlers of the process.                          *)
(***************************************************************************)
\* An initialisation that goes on when the table cannot be verified.
initializeSupabaseLenient ==
    /\ server = "starting"
    /\ dbInitialized' = TRUE
    /\ server' = "initialized"
    /\ exitCode' = exitCode
    /\ UNCHANGED <<variant, now, db, nextId, files, dirs, objects, pc, loc, resp,
                   nreq, remote>>

\* await initializeSupabase(): the count query on 'computadores' is answered.
\* With no error the flag is set; with 42P01 or any other error the function
\* throws and the catch of startServer calls process.exit(1).
initializeSupabase ==
    /\ server = "starting"
    /\ IF remote = Ok
       THEN /\ dbInitialized' = TRUE
            /\ server' = "initialized"
            /\ exitCode' = exitCode
       ELSE /\ dbInitialized' = dbInitialized
            /\ server' = "exited"
            /\ exitCode' = 1
    /\ UNCHANGED <<variant, now, db, nextId, files, dirs, objects, pc, loc, resp,
                   nreq, remote>>

\* A startServer that does not await initializeSupabase() before it calls
\* app.listen.
ListenNoAwait ==
    /\ server \in {"starting", "initialized"}
    /\ server' = "listening"
    /\ UNCHANGED <<variant, now, db, nextId, files, dirs, objects, pc, loc, resp,
                   nreq, dbInitialized, exitCode, remote>>

\* app.listen(PORT, '0.0.0.0', ...) binds the port.
Listen ==
    /\ server = "initialized"
    /\ server' = "listening"
    /\ UNCHANGED <<variant, now, db, nextId, files, dirs, objects, pc, loc, resp,
                   nreq, dbInitialized, exitCode, remote>>

\* The port cannot be bound: the 'error' event of the server has no
\* listener, and process.on('uncaughtException') calls process.exit(1).
ListenFails ==
    /\ server = "initialized"
    /\ server' = "exited"
    /\ exitCode' = 1
    /\ UNCHANGED <<variant, now, db, nextId, files, dirs, objects, pc, loc, resp,
                   nreq, dbInitialized, remote>>

\* process.on('SIGINT'): process.exit(0)
Sigint ==
    /\ server # "exited"
    /\ server' = "exited"
    /\ exitCode' = 0
    /\ UNCHANGED <<variant, now, db, nextId, files, dirs, objects, pc, loc, resp,
                   nreq, dbInitialized, remote>>

(***************************************************************************)
(* The remote service.                                                     *)
(***************************************************************************)
\* The errors of the remote service that do not come from the request: a
\* statement that times out.
Faults == {"57014"}

\* The remote service starts to fail, and recovers.
RemoteFails ==
    /\ remote = Ok
    /\ server = "listening"
    /\ remote' \in Faults
    /\ UNCHANGED <<variant, now, db, nextId, files, dirs, objects, pc, loc, resp,
                   nreq, dbInitialized, server, exitCode>>

RemoteRecovers ==
    /\ remote # Ok
    /\ server = "listening"
    /\ remote' = Ok
    /\ UNCHANGED <<variant, now, db, nextId, files, dirs, objects, pc, loc, resp,
                   nreq, dbInitialized, server, exitCode>>

(***************************************************************************)
(* The client reads the response; time passes.                             *)
(***************************************************************************)
Reset(p) ==
    /\ pc[p] = "done"
    /\ pc' = [pc EXCEPT ![p] = "idle"]
    /\ resp' = [resp EXCEPT ![p] = NoResp]
    /\ loc' = [loc EXCEPT ![p] = NoLoc]
    /\ UNCHANGED <<variant, now, db, nextId, files, dirs, objects>>

Tick ==
    /\ now < MaxTime
    /\ now' = now + 1
    /\ UNCHANGED <<variant, db, nextId, files, dirs, objects, pc, loc, resp>>


(***************************************************************************)
(* The requests of the model.                                              *)
(***************************************************************************)
PC1 == <<"P","C","1">>
PCdash1 == <<"P","C","-","1">>
SN1 == <<"S","N","1">>
Ana == <<"A","n","a">>
Luis == <<"L","u","i","s">>
Tech == <<"T","e","c","h">>
Roto == <<"r","o","t","o">>

\* data:image/png;base64,AAAA
PngUri ==
    <<"d","a","t","a",":","i","m","a","g","e","/","p","n","g",";","b","a","s",
      "e","6","4",",","A","A","A","A">>

\* data:image/png (no comma)
NoCommaUri == <<"d","a","t","a",":","i","m","a","g","e","/","p","n","g">>

\* data:image/svg+xml;base64,AAAA (the subtype is not made of letters)
SvgUri ==
    <<"d","a","t","a",":","i","m","a","g","e","/","s","v","g","+","x","m","l",
      ";","b","a","s","e","6","4",",","A","A","A","A">>

EmptyItem ==
    [title |-> Undef, base64 |-> Undef, filename |-> Undef, url |-> Undef,
     size |-> Undef, fecha_subida |-> Undef]

\* { base64 }
NewItem(payload) == [EmptyItem EXCEPT !.base64 = Some(payload)]

\* An entry of a stored list sent back as it was read.
Resubmit(e) ==
    [title |-> Some(e.title), base64 |-> Undef, filename |-> Some(e.filename),
     url |-> e.url,
     size |-> IF "size" \in DOMAIN e THEN Some(e.size) ELSE Undef,
     fecha_subida |-> Some(e.fecha_subida)]

\* A reference to a local file that was never stored, and one to a hosted
\* object.
StaleItem == [EmptyItem EXCEPT !.filename = Some(PC1 \o <<"/","x",".","p","n","g">>)]
HostedItem ==
    [EmptyItem EXCEPT !.filename = Some(getPublicUrl(PC1 \o <<"/","x",".","p","n","g">>))]

StoredEntries(table) ==
    UNION {{table[j].imagenes[k] : k \in DOMAIN table[j].imagenes} : j \in DOMAIN table}

BoundedSeq(S, n) == UNION {[1..k -> S] : k \in 0..n}

\* The values of 'imagenes' in a body: absent, not an array, or an array of at
\* most MaxItems of the given items.
ImagenesOf(items) ==
    {[kind |-> "undefined", items |-> <<>>], [kind |-> "string", items |-> <<>>]}
        \cup {[kind |-> "array", items |-> s] : s \in BoundedSeq(items, MaxItems)}

PostItems == {NewItem(PngUri), NewItem(NoCommaUri), NewItem(SvgUri), EmptyItem}

\* AAAA: a payload without the data-URI header
RawBase64 == <<"A","A","A","A">>

\* The items of an update: those of a create, references that were never
\* stored, and the stored entries sent back, alone or with a raw payload.
PutItems(table) ==
    PostItems \cup {StaleItem, HostedItem}
        \cup {Resubmit(e) : e \in StoredEntries(table)}
        \cup {[Resubmit(e) EXCEPT !.base64 = Some(RawBase64)] : e \in StoredEntries(table)}

FullBody(equipo_id, estado, imagenes) ==
    [equipo_id |-> Some(equipo_id), serial_number |-> Some(SN1),
     responsable |-> Some(Ana), cargo |-> Some(Tech), estado |-> Some(estado),
     windows_update |-> Some(Si), imagenes |-> imagenes]

\* Bodies with every required field: a valid and an invalid estado, and a
\* second identifier that shares the directory name of the first.
CompleteBodies ==
    {FullBody(PC1, es, im) : es \in {Operativo, Roto}, im \in ImagenesOf(PostItems)}
        \cup {FullBody(PCdash1, Operativo,
                        [kind |-> "array", items |-> <<NewItem(PngUri)>>])}

\* Bodies with one or two required fields absent or empty, and an image.
IncompleteBodies ==
    {[FullBody(PC1, Operativo, [kind |-> "array", items |-> <<NewItem(PngUri)>>])
          EXCEPT ![f] = v, ![g] = w] :
        f \in {RequiredFields[i] : i \in DOMAIN RequiredFields},
        g \in {RequiredFields[i] : i \in DOMAIN RequiredFields},
        v \in {Undef, Some(<<>>)}, w \in {Undef, Some(<<>>)}}

PostBodies == CompleteBodies \cup IncompleteBodies

\* Bodies of an update: only 'imagenes'; every field; an invalid estado.
PutFields ==
    {[equipo_id |-> Undef, serial_number |-> Undef, responsable |-> Undef,
      cargo |-> Undef, estado |-> Undef, windows_update |-> Undef],
     [equipo_id |-> Some(PC1), serial_number |-> Some(SN1), responsable |-> Some(Luis),
      cargo |-> Some(Tech), estado |-> Some(Mantenimiento), windows_update |-> Some(No)],
     [equipo_id |-> Undef, serial_number |-> Undef, responsable |-> Undef,
      cargo |-> Undef, estado |-> Some(Roto), windows_update |-> Undef]}

PutBodies(table) ==
    {[equipo_id |-> f.equipo_id, serial_number |-> f.serial_number,
      responsable |-> f.responsable, cargo |-> f.cargo, estado |-> f.estado,
      windows_update |-> f.windows_update, imagenes |-> im] :
        f \in PutFields, im \in ImagenesOf(PutItems(table))}

Ids == 1..MaxId

\* req.query with the filter on estado alone
Query(estado) ==
    [estado |-> estado, responsable |-> Undef, equipo_id |-> Undef,
     serial_number |-> Undef, revisor |-> Undef]

Filters == {Query(Undef), Query(Some(Operativo))}

\* The requests of the runs with requests in flight together: a create with
\* no image or one, or with a field missing; an update of 'imagenes' alone or
\* of every field, with no image, a new one or a stored one sent back.
FewPostBodies ==
    {FullBody(e, Operativo, im) :
        e \in {PC1, PCdash1},
        im \in {[kind |-> "undefined", items |-> <<>>],
                [kind |-> "array", items |-> <<NewItem(PngUri)>>]}}
      \cup {[FullBody(PC1, Operativo, [kind |-> "array", items |-> <<NewItem(PngUri)>>])
                EXCEPT !.cargo = Undef]}

FewPutBodies(table) ==
    {[equipo_id |-> Undef, serial_number |-> Undef, responsable |-> Some(r),
      cargo |-> Undef, estado |-> Undef, windows_update |-> Undef, imagenes |-> im] :
        r \in {Luis},
        im \in {[kind |-> "undefined", items |-> <<>>],
                [kind |-> "array", items |-> <<NewItem(PngUri)>>]}
               \cup {[kind |-> "array", items |-> <<Resubmit(e)>>] :
                        e \in StoredEntries(table)}}

\* 'imagenes' absent from the body, and null.
NoImagenes == [kind |-> "undefined", items |-> <<>>]
NullImagenes == [kind |-> "null", items |-> <<>>]

\* 'imagenes' that is no array but has a length and an item at index 0:
\* { "length": 1, "0": { "base64": "data:image/png;base64,AAAA" } }
ObjectImagenes == [kind |-> "object", items |-> <<NewItem(PngUri)>>]

\* Coordinates in units of 10^-9 degree: none, the equator, both given, more
\* decimals than the columns keep.
Coordinates ==
    {<<Undef, Undef>>, <<Some(0), Some(500000000)>>,
     <<Some(500000000), Some(500000000)>>, <<Some(1123456789), Undef>>}

Cali == <<"C","a","l","i">>

\* Bodies of a create for the runs that read: they differ in estado,
\* responsable and revisor; in the coordinates; in problemas_detectados
\* (blank or not); in 'imagenes'; one carries every optional field.
ReadPostBodies ==
    {[revisor |-> rv] @@
         [FullBody(e, es, NoImagenes) EXCEPT !.responsable = Some(r)] :
        e \in {PC1, PCdash1}, es \in {Operativo, Mantenimiento},
        r \in {Ana, Luis}, rv \in {Undef, Some(Ana)}}
      \cup {[latitud |-> c[1], longitud |-> c[2]] @@
                FullBody(PC1, Operativo, NoImagenes) : c \in Coordinates}
      \cup {[problemas_detectados |-> pd] @@ FullBody(PC1, Operativo, NoImagenes) :
                pd \in {Some(<<" ">>), Some(<<"x">>)}}
      \cup {FullBody(PC1, Danado, im) :
                im \in {NullImagenes, ObjectImagenes,
                        [kind |-> "array", items |-> <<NewItem(PngUri)>>],
                        [kind |-> "array",
                         items |-> <<NewItem(PngUri), NewItem(NoCommaUri)>>]}}
      \cup {[placa_ml |-> Some(SN1), latitud |-> Some(500000000),
             longitud |-> Some(500000000), direccion_automatica |-> Some(Cali),
             ubicacion_manual |-> Some(Cali), observaciones |-> Some(Cali),
             problemas_detectados |-> Some(Cali), revisor |-> Some(Luis)] @@
                FullBody(PCdash1, Operativo, NoImagenes)}

\* Bodies of an update for the runs that read: 'imagenes' absent, null, the
\* stored entries sent back alone or followed by a new image, a new image
\* alone; with no other field or with a new responsable.
ReadPutBodies(table) ==
    {[equipo_id |-> Undef, serial_number |-> Undef, responsable |-> r,
      cargo |-> Undef, estado |-> Undef, windows_update |-> Undef, imagenes |-> im] :
        r \in {Undef, Some(Luis)},
        im \in {NoImagenes, NullImagenes, ObjectImagenes,
                [kind |-> "array", items |-> <<NewItem(PngUri)>>]}
               \cup {[kind |-> "array", items |-> <<Resubmit(e)>>] :
                        e \in StoredEntries(table)}
               \cup {[kind |-> "array", items |-> <<Resubmit(e), NewItem(PngUri)>>] :
                        e \in StoredEntries(table)}}

\* req.query of the list: estado absent, empty or given; responsable and
\* revisor absent or given (in lower case, as part of the value); and one
\* query on each of equipo_id and serial_number.
Queries ==
    {[Query(es) EXCEPT !.responsable = r, !.revisor = rv] :
        es \in {Undef, Some(<<>>), Some(Operativo), Some(Mantenimiento)},
        r \in {Undef, Some(<<"a","n">>)},
        rv \in {Undef, Some(<<"N","A">>)}}
      \cup {[Query(Undef) EXCEPT !.equipo_id = Some(<<"c","-">>)],
            [Query(Some(Operativo)) EXCEPT !.serial_number = Some(<<"s","n","1">>)],
            [Query(Undef) EXCEPT !.responsable = Some(<<"_","u">>)]}

\* Bodies for the runs with a failing remote service: those of FewPostBodies
\* and FewPutBodies, a create with an estado the table refuses, an update
\* that sets cargo to null.
FaultPostBodies ==
    FewPostBodies \cup {FullBody(PC1, Roto, NoImagenes)}

FaultPutBodies(table) ==
    FewPutBodies(table)
        \cup {[equipo_id |-> Undef, serial_number |-> Undef, responsable |-> Undef,
               cargo |-> Some(JsNull), estado |-> Undef, windows_update |-> Undef,
               imagenes |-> NoImagenes]}

\* Bodies for the runs with two updates of one record in flight: a create
\* with an image; an update that sets responsable and sends one new image,
\* and an update that sets cargo and revisor and sends no 'imagenes'.
Jefe == <<"J","e","f","e">>

PutPostBodies ==
    {FullBody(PCdash1, Operativo, [kind |-> "array", items |-> <<NewItem(PngUri)>>])}

ConcurrentPutBodies(table) ==
    {[equipo_id |-> Undef, serial_number |-> Undef, responsable |-> Some(Luis),
      cargo |-> Undef, estado |-> Undef, windows_update |-> Undef,
      imagenes |-> [kind |-> "array", items |-> <<NewItem(PngUri)>>]],
     [equipo_id |-> Undef, serial_number |-> Undef, responsable |-> Undef,
      cargo |-> Some(Jefe), estado |-> Undef, windows_update |-> Undef,
      revisor |-> Some(Luis), imagenes |-> NoImagenes]}

\* Requests for the runs on names and paths.  Identifiers with "..", "/"
\* and no letter or digit; references to a file of the application outside
\* the uploads directory, to the directory of an equipment, to a file that
\* was never stored, to a hosted object; an item with nothing.
DotDotId == <<".",".","/","x">>
DashId == <<"-">>

\* __filename: the file of the server, beside the uploads directory
ServerJs == PathJoin(AppDir, <<"s","e","r","v","e","r",".","j","s">>)

TraversalItem ==
    [EmptyItem EXCEPT !.filename = Some(<<".",".","/","s","e","r","v","e","r",".","j","s">>)]
DirItem == [EmptyItem EXCEPT !.filename = Some(PC1)]

\* 'data:image/../x;base64,AAAA'
TraversalUri ==
    DataImagePrefix \o <<".",".","/","x">> \o Base64Marker \o <<"A","A","A","A">>

PathPostBodies ==
    {FullBody(e, Operativo, [kind |-> "array", items |-> <<NewItem(PngUri)>>]) :
        e \in {PC1, DotDotId, DashId}}
      \cup {FullBody(DotDotId, Operativo,
                [kind |-> "array",
                 items |-> <<NewItem(TraversalUri), NewItem(PngUri)>>])}

PathPutItems(table) ==
    {<<it>> : it \in {NewItem(PngUri), NewItem(TraversalUri), TraversalItem,
                      DirItem, StaleItem, HostedItem, EmptyItem}}
      \cup {<<Resubmit(e)>> : e \in StoredEntries(table)}
      \cup {<<it, Resubmit(e)>> :
                it \in {DirItem, StaleItem}, e \in StoredEntries(table)}

PathPutBodies(table) ==
    {[equipo_id |-> eq, serial_number |-> Undef, responsable |-> Undef,
      cargo |-> Undef, estado |-> Undef, windows_update |-> Undef,
      imagenes |-> [kind |-> "array", items |-> its]] :
        eq \in {Undef, Some(DotDotId)}, its \in PathPutItems(table)}

\* A request is received: it takes the first free slot.
Receive(p, max) ==
    /\ server = "listening"
    /\ pc[p] = "idle"
    /\ \A q \in Procs : q < p => pc[q] # "idle"
    /\ nreq < max
    /\ nreq' = nreq + 1
    /\ UNCHANGED process

\* A step of a request already received, or of the clock.
Continue ==
    /\ server # "exited"
    /\ nreq' = nreq
    /\ UNCHANGED process

\* The steps of at most max requests in the slots PS, with the given bodies
\* and queries.
NextOf(PS, max, postBodies, putBodies(_), queries) ==
    \/ \E p \in PS, body \in postBodies :
          Receive(p, max) /\ checkDatabase(p, "post", 0, Post(p, body))
    \/ \E p \in PS : PostUpload(p) /\ Continue
    \/ \E p \in PS : PostInsert(p) /\ Continue
    \/ \E p \in PS, id \in Ids, body \in putBodies(db) :
          Receive(p, max) /\ checkDatabase(p, "put", id, Put(p, id, body))
    \/ \E p \in PS : PutUpload(p) /\ Continue
    \/ \E p \in PS : PutUpdate(p) /\ Continue
    \/ \E p \in PS, id \in Ids :
          Receive(p, max) /\ checkDatabase(p, "delete", id, Delete(p, id))
    \/ \E p \in PS : DelRow(p) /\ Continue
    \/ \E p \in PS : DelFiles(p) /\ Continue
    \/ \E p \in PS : DelRemove(p) /\ Continue
    \/ \E p \in PS, id \in Ids : Receive(p, max) /\ GetOne(p, id)
    \/ \E p \in PS, query \in queries :
          Receive(p, max) /\ checkDatabase(p, "list", 0, List(p, query))
    \/ \E p \in PS : ListMap(p) /\ Continue
    \/ \E p \in PS : Receive(p, max) /\ checkDatabase(p, "stats", 0, Stats(p))
    \/ \E p \in PS : Receive(p, max) /\ checkDatabase(p, "export", 0, Export(p))
    \/ \E p \in PS : Reset(p) /\ Continue
    \/ Tick /\ Continue

\* Requests in flight together.
Next == NextOf(Procs, MaxReqs, FewPostBodies, FewPutBodies, Filters)

Spec == Init /\ [][Next]_vars

\* One request at a time, with every body of the model.
NextSeq == NextOf({1}, MaxSeqReqs, PostBodies, PutBodies, Filters)

SpecSeq == Init /\ [][NextSeq]_vars

\* One request at a time, with bodies that differ in the columns the read
\* endpoints filter and count on, and with every read endpoint.
NextRead == NextOf({1}, MaxReadReqs, ReadPostBodies, ReadPutBodies, Queries)

SpecRead == Init /\ [][NextRead]_vars

\* One request at a time against a remote service that may fail and
\* recover at any time.
NextFault ==
    \/ RemoteFails
    \/ RemoteRecovers
    \/ NextOf({1}, MaxFaultReqs, FaultPostBodies, FaultPutBodies, Filters)

SpecFault == Init /\ [][NextFault]_vars

\* The process from the call of startServer(): the table is there (Ok), is
\* missing (42P01) or cannot be read (another error).  The awaited query is
\* answered at some time; the requests come once the server listens.
InitStart ==
    /\ Loaded
    /\ dbInitialized = FALSE
    /\ server = "starting"
    /\ remote \in {Ok, "42P01"} \cup Faults

NextStart ==
    \/ initializeSupabase
    \/ Listen
    \/ ListenFails
    \/ Sigint
    \/ NextOf({1}, MaxStartReqs, FewPostBodies, FewPutBodies, Filters)

SpecStart == InitStart /\ [][NextStart]_vars /\ WF_vars(initializeSupabase)

\* The routes applied to requests for either value of the flag that
\* checkDatabase reads, over a table with no row or with one.  (A server
\* started by startServer() listens only once the flag is set.)
OneRow ==
    [j \in {1} |->
        InsertedRow(BodyValues(FullBody(PC1, Operativo,
                        [kind |-> "undefined", items |-> <<>>])), 1, 0)]

InitGate ==
    /\ variant \in {"hosted", "hybrid"}
    /\ now = 0
    /\ \/ db = EmptyTable /\ nextId = 1
       \/ db = OneRow /\ nextId = 2
    /\ files = {}
    /\ dirs = {<<"/">>, AppDir, UPLOADS_DIR}
    /\ objects = {}
    /\ pc = [p \in Procs |-> "idle"]
    /\ loc = [p \in Procs |-> NoLoc]
    /\ resp = [p \in Procs |-> NoResp]
    /\ nreq = 0
    /\ exitCode = -1
    /\ dbInitialized = FALSE
    /\ server = "listening"
    /\ remote = Ok

NextGate ==
    \/ \E p \in Procs, body \in FewPostBodies :
          Receive(p, MaxGateReqs) /\ checkDatabase(p, "post", 0, Post(p, body))
    \/ \E p \in Procs, id \in Ids, body \in FewPutBodies(db) :
          Receive(p, MaxGateReqs) /\ checkDatabase(p, "put", id, Put(p, id, body))
    \/ \E p \in Procs, id \in Ids :
          Receive(p, MaxGateReqs) /\ checkDatabase(p, "delete", id, Delete(p, id))
    \/ \E p \in Procs, id \in Ids : Receive(p, MaxGateReqs) /\ GetOne(p, id)
    \/ \E p \in Procs, query \in Filters :
          Receive(p, MaxGateReqs) /\ checkDatabase(p, "list", 0, List(p, query))
    \/ \E p \in Procs : Receive(p, MaxGateReqs) /\ checkDatabase(p, "stats", 0, Stats(p))
    \/ \E p \in Procs : Receive(p, MaxGateReqs) /\ checkDatabase(p, "export", 0, Export(p))
    \/ \E p \in Procs : Reset(p) /\ Continue
    \/ Tick /\ Continue

SpecGate == InitGate /\ [][NextGate]_vars

\* The server started on a table that holds one record, then requests in
\* flight together, the updates with different sets of fields.
InitPut ==
    /\ variant \in {"hosted", "hybrid"}
    /\ now = 0
    /\ db = OneRow
    /\ nextId = 2
    /\ files = {}
    /\ dirs = {<<"/">>, AppDir, UPLOADS_DIR}
    /\ objects = {}
    /\ pc = [p \in Procs |-> "idle"]
    /\ loc = [p \in Procs |-> NoLoc]
    /\ resp = [p \in Procs |-> NoResp]
    /\ nreq = 0
    /\ exitCode = -1
    /\ dbInitialized = TRUE
    /\ server = "listening"
    /\ remote = Ok

NextPut == NextOf(Procs, MaxPutReqs, PutPostBodies, ConcurrentPutBodies, Filters)

SpecPut == InitPut /\ [][NextPut]_vars

\* The server started with its own file on the disk, then one request at a
\* time with the names and references above.
InitPath ==
    /\ variant \in {"hosted", "hybrid"}
    /\ now = 0
    /\ db = EmptyTable
    /\ nextId = 1
    /\ files = {ServerJs}
    /\ dirs = {<<"/">>, AppDir, UPLOADS_DIR}
    /\ objects = {}
    /\ pc = [p \in Procs |-> "idle"]
    /\ loc = [p \in Procs |-> NoLoc]
    /\ resp = [p \in Procs |-> NoResp]
    /\ nreq = 0
    /\ exitCode = -1
    /\ dbInitialized = TRUE
    /\ server = "listening"
    /\ remote = Ok

NextPath == NextOf({1}, MaxPathReqs, PathPostBodies, PathPutBodies, Filters)

SpecPath == InitPath /\ [][NextPath]_vars


(***************************************************************************)
(* Properties.  A request's step is recognised by the position it leaves   *)
(* and the one it takes: received (idle to the handler's first position),  *)
(* or answered (to "done").                                                *)
(***************************************************************************)
Range(f) == {f[k] : k \in DOMAIN f}

\* The six names of the 'required' list, as the response carries them.
SixRequiredNames ==
    <<"equipo_id", "serial_number", "responsable", "cargo", "estado", "windows_update">>

\* A field that is absent from the body or is the empty string.
AbsentOrEmpty(v) == v = Undef \/ v = Some(<<>>)

\* s is data:image/<a letters>;base64,<payload on one line>
WellFormedWith(s, a) ==
    LET k == Len(DataImagePrefix)
        m == Len(Base64Marker)
    IN /\ Len(s) >= k + a + m
       /\ SubSeq(s, 1, k) = DataImagePrefix
       /\ \A i \in (k + 1)..(k + a) : s[i] \in Letters
       /\ SubSeq(s, k + a + 1, k + a + m) = Base64Marker
       /\ \A i \in (k + a + m + 1)..Len(s) : s[i] \notin LineTerminators

WellFormedDataUri(s) == \E a \in 0..Len(s) : WellFormedWith(s, a)

\* The <subtype> of a well-formed data URI.
Subtype(s) ==
    LET a == CHOOSE n \in 0..Len(s) : WellFormedWith(s, n)
    IN SubSeq(s, Len(DataImagePrefix) + 1, Len(DataImagePrefix) + a)

\* An item with an inline payload that is a well-formed data URI, and one
\* with an inline payload that is not.
HasWellFormedPayload(item) ==
    item.base64 # Undef /\ item.base64[1] # <<>> /\ WellFormedDataUri(item.base64[1])

HasMalformedPayload(item) ==
    item.base64 # Undef /\ item.base64[1] # <<>> /\ ~WellFormedDataUri(item.base64[1])

\* An item whose payload announces an image (it starts with "data:image")
\* and is not a well-formed data URI.
HasMalformedImagePayload(item) ==
    HasMalformedPayload(item) /\ StartsWith(item.base64[1], DataImage)

\* Entry e was made from the payload of the item at position i: its
\* filename ends in -<i>.<subtype>.
MadeFrom(e, item, i) ==
    /\ HasWellFormedPayload(item)
    /\ EndsWith(e.filename,
                <<"-">> \o NumStr(i) \o <<".">> \o Subtype(item.base64[1]))

\* Entry e is the reference of an item that announces no image payload.
PassedThrough(e, item) ==
    /\ ~(item.base64 # Undef /\ StartsWith(item.base64[1], DataImage))
    /\ item.filename # Undef
    /\ e.filename = item.filename[1]

\* The file or object of an entry is stored.
IsLocalName(filename) == ~StartsWith(filename, HttpPrefix)

Stored(e, fsFiles, bucket) ==
    IF variant = "hybrid" THEN PathJoin(UPLOADS_DIR, e.filename) \in fsFiles
    ELSE e.filename \in bucket

\* Steps of the requests in slot p.
PostReceived(p) == pc[p] = "idle" /\ loc'[p].op = "post"
PostAnswered(p) == pc[p] = "post_insert" /\ pc'[p] = "done"
PutReceived(p) == pc[p] = "idle" /\ loc'[p].op = "put"
PutAnswered(p) == pc[p] = "put_update" /\ pc'[p] = "done"
DeleteAnswered(p) == pc[p] = "del_files" /\ pc'[p] = "done"

\* A DELETE of id that has returned success.
Deleted(q, id) ==
    pc[q] = "done" /\ loc[q].op = "delete" /\ loc[q].id = id /\ resp[q].status = 200

(***************************************************************************)
(* C1: a POST with one of the six required fields absent or empty is       *)
(* answered 400 with the six names as 'required', and has no effect: no    *)
(* file is written, no object uploaded, no record inserted.                *)
(***************************************************************************)
C1_MissingFieldRejected ==
    [][\A p \in Procs :
          PostReceived(p) =>
              \A body \in PostBodies :
                  (/\ Post(p, body)
                   /\ \E i \in 1..6 : AbsentOrEmpty(body[SixRequiredNames[i]]))
                  => /\ resp'[p].status = 400
                     /\ resp'[p].required = SixRequiredNames
                     /\ pc'[p] = "done"
                     /\ db' = db /\ nextId' = nextId
                     /\ files' = files /\ dirs' = dirs /\ objects' = objects]_vars

C1_Witness ==
    \E p \in Procs :
        /\ pc[p] = "done" /\ loc[p].op = "post"
        /\ resp[p].status = 400 /\ resp[p].required = SixRequiredNames
        /\ db = EmptyTable /\ files = {} /\ objects = {}

(***************************************************************************)
(* C2 as stated: a POST with every required field whose insert finds a     *)
(* record with the same equipo_id is answered 400 'El ID del equipo ya     *)
(* existe' with code 23505, and the records are unchanged.                 *)
(***************************************************************************)
SameEquipoId(p) ==
    {j \in DOMAIN db : db[j].equipo_id = loc[p].values.equipo_id[1]}

C3_DeleteUnknown ==
    [][\A p \in Procs :
          (pc[p] = "del_row" /\ pc'[p] # "del_row" /\ loc[p].id \notin DOMAIN db)
          => /\ resp'[p].status = 404
             /\ pc'[p] = "done"
             /\ db' = db /\ files' = files /\ objects' = objects]_vars

C3_Witness ==
    \E p \in Procs :
        /\ pc[p] = "done" /\ loc[p].op = "delete" /\ resp[p].status = 404
        /\ loc[p].id \notin DOMAIN db

(***************************************************************************)
(* C4: once a DELETE of a record has returned success, every GET of the    *)
(* list received afterwards reads and answers rows without that record,    *)
(* and every GET of that id received afterwards is answered 404.           *)
(***************************************************************************)
C4_DeletedStaysGone ==
    [][\A q \in Procs, id \in Ids :
          Deleted(q, id) =>
              \A p \in Procs :
                  /\ (pc[p] = "idle" /\ loc'[p].op = "getone" /\ loc'[p].id = id)
                         => resp'[p].status = 404
                  /\ (pc[p] = "idle" /\ loc'[p].op = "list")
                         => \A r \in Range(IF variant = "hosted" THEN resp'[p].data
                                           ELSE loc'[p].data) : r.id # id
                  /\ (pc[p] = "list_map" /\ pc'[p] = "done")
                         => {r.id : r \in Range(resp'[p].data)}
                                = {r.id : r \in Range(loc[p].data)}]_vars

C4_Witness ==
    \E p, q \in Procs, id \in Ids :
        /\ Deleted(q, id)
        /\ variant = "hosted"
        /\ pc[p] = "done" /\ loc[p].op = "getone" /\ loc[p].id = id
        /\ resp[p].status = 404 /\ resp[p].error = "Computador no encontrado"
        /\ nextId > id

(***************************************************************************)
(* C5 as stated: in the hybrid variant, when a DELETE returns success no   *)
(* local file named by the list of the row it removed is left on disk.     *)
(***************************************************************************)
C5_AsStated ==
    [][\A p \in Procs :
          (variant = "hybrid" /\ DeleteAnswered(p))
          => \A e \in Range(loc[p].data[1].imagenes) :
                 IsLocalName(e.filename)
                     => PathJoin(UPLOADS_DIR, e.filename) \notin files']_vars

(***************************************************************************)
(* C6: a PUT whose id matches no record is answered 404, and no record is  *)
(* created or modified.                                                    *)
(***************************************************************************)
C6_PutUnknown ==
    [][\A p \in Procs :
          (PutAnswered(p) /\ loc[p].id \notin DOMAIN db)
          => /\ resp'[p].status = 404
             /\ db' = db]_vars

C6_Witness ==
    \E p \in Procs :
        /\ pc[p] = "done" /\ loc[p].op = "put"
        /\ resp[p].status = 404 /\ resp[p].error = "Registro no encontrado"
        /\ loc[p].id \notin DOMAIN db

(***************************************************************************)
(* C7: a PUT that succeeds replaces the attachment list of the record: the *)
(* stored list is the list computed from the request's 'imagenes', each of *)
(* its entries was made from a submitted payload or is a submitted         *)
(* reference, it is empty when 'imagenes' is absent or not an array, and   *)
(* fecha_actualizacion is the time the handler read when it built the      *)
(* update, at its last step before the update was sent.                    *)
(***************************************************************************)
C7_PutReplacesList ==
    [][\A p \in Procs :
          /\ (PutAnswered(p) /\ resp'[p].status = 200)
             => LET id == loc[p].id
                    items == loc[p].items
                    new == db'[id].imagenes
                IN /\ new = loc[p].values.imagenes
                   /\ \A k \in DOMAIN new :
                          \E i \in DOMAIN items :
                              MadeFrom(new[k], items[i], i)
                                  \/ PassedThrough(new[k], items[i])
                   /\ db'[id].fecha_actualizacion = loc[p].values.fecha_actualizacion
                   /\ db'[id].fecha_actualizacion <= now
                   /\ db'[id].fecha_revision = db[id].fecha_revision
          /\ (pc[p] = "put_upload" /\ loc'[p] # loc[p])
             => loc'[p].values.fecha_actualizacion = now
          /\ PutReceived(p)
             => /\ loc'[p].values.fecha_actualizacion = now
                /\ \A body \in {b \in PutBodies(db) : b.imagenes.kind # "array"} :
                       Put(p, loc'[p].id, body)
                           => /\ loc'[p].values.imagenes = <<>>
                              /\ pc'[p] = "put_update"]_vars

C7_Witness ==
    \E p \in Procs :
        /\ pc[p] = "done" /\ loc[p].op = "put" /\ resp[p].status = 200
        /\ loc[p].id \in DOMAIN db
        /\ db[loc[p].id].imagenes # <<>>
        /\ db[loc[p].id].fecha_actualizacion > db[loc[p].id].fecha_revision

(***************************************************************************)
(* C8 as stated: in the hybrid variant, when a PUT succeeds, the local     *)
(* file of every entry the record held and the request did not submit is   *)
(* no longer on disk.                                                      *)
(***************************************************************************)
C8_AsStated ==
    [][\A p \in Procs :
          (variant = "hybrid" /\ PutAnswered(p) /\ resp'[p].status = 200)
          => \A e \in Range(db[loc[p].id].imagenes) :
                 (/\ IsLocalName(e.filename)
                  /\ \A i \in DOMAIN loc[p].items :
                         loc[p].items[i].filename # Some(e.filename))
                 => PathJoin(UPLOADS_DIR, e.filename) \notin files']_vars

(***************************************************************************)
(* C9 as stated: when a create succeeds, each submitted item whose base64  *)
(* is a well-formed data URI has exactly one entry in the stored list,     *)
(* with a filename ending in .<subtype>, and that entry's file or object   *)
(* is stored.                                                              *)
(***************************************************************************)
C9_AsStated ==
    [][\A p \in Procs :
          (PostAnswered(p) /\ resp'[p].status = 201)
          => LET items == loc[p].items
                 new == db'[resp'[p].id].imagenes
             IN \A i \in DOMAIN items :
                    HasWellFormedPayload(items[i])
                    => /\ Cardinality({k \in DOMAIN new :
                              MadeFrom(new[k], items[i], i)}) = 1
                       /\ \A k \in DOMAIN new :
                              MadeFrom(new[k], items[i], i)
                                  => Stored(new[k], files', objects')]_vars

Skipped(op, item) ==
    IF op = "post" THEN HasMalformedPayload(item) ELSE HasMalformedImagePayload(item)

Emptied(op, items) ==
    [i \in DOMAIN items |-> IF Skipped(op, items[i]) THEN EmptyItem ELSE items[i]]

RecordOps == {"list", "getone", "post", "put", "delete", "stats", "export"}

Refused(p) ==
    /\ pc'[p] = "done"
    /\ resp'[p].status = 500
    /\ resp'[p].error = "Base de datos no disponible"
    /\ UNCHANGED <<db, nextId, files, dirs, objects>>

C11_GatedRefused ==
    [][\A p \in Procs :
          (/\ ~dbInitialized /\ pc[p] = "idle" /\ loc'[p].op \in RecordOps
           /\ ~(variant = "hybrid" /\ loc'[p].op = "getone"))
              => Refused(p)]_vars

C11_Witness ==
    /\ ~dbInitialized
    /\ db # EmptyTable
    /\ \E p \in Procs :
          /\ pc[p] = "done" /\ loc[p].op = "put" /\ loc[p].id \in DOMAIN db
          /\ resp[p].status = 500
          /\ resp[p].error = "Base de datos no disponible"

(***************************************************************************)
(* C12.  If the verification of 'computadores' at startup fails, with      *)
(* 42P01 or with any other remote error, the process exits with code 1,    *)
(* the server never listens and the flag is never set in that run.         *)
(***************************************************************************)
C12_FailedStartupExits ==
    /\ [][/\ (server = "starting" /\ server' # "starting" /\ remote # Ok
                 /\ exitCode' # 0)
              => (server' = "exited" /\ exitCode' = 1)
          /\ remote # Ok
              => (server' \notin {"initialized", "listening"} /\ ~dbInitialized')
          /\ server = "exited"
              => (server' = "exited" /\ exitCode' = exitCode
                     /\ dbInitialized' = dbInitialized)
          /\ server' = "listening" => dbInitialized']_vars
    /\ (server = "starting" /\ remote # Ok) ~> (server = "exited")

C12_Witness ==
    /\ remote = "42P01"
    /\ server = "exited"
    /\ exitCode = 1
    /\ ~dbInitialized
    /\ nreq = 0

(***************************************************************************)
(* C13.  GET /api/computadores?estado=S returns exactly the records whose  *)
(* estado equals S and that pass every other filter supplied (responsable, *)
(* equipo_id, serial_number, revisor), each record once and as stored,     *)
(* ordered by fecha_revision descending; with no filter it returns every   *)
(* record in that order.                                                   *)
(***************************************************************************)
\* The filters of a query other than estado hold of a row.
OtherFilters(row, query) ==
    /\ Falsy(query.responsable) \/ Ilike(Some(row.responsable), query.responsable[1])
    /\ Falsy(query.equipo_id) \/ Ilike(Some(row.equipo_id), query.equipo_id[1])
    /\ Falsy(query.serial_number)
           \/ Ilike(Some(row.serial_number), query.serial_number[1])
    /\ Falsy(query.revisor) \/ Ilike(row.revisor, query.revisor[1])

NoFilter(query) ==
    /\ Falsy(query.estado) /\ Falsy(query.responsable) /\ Falsy(query.equipo_id)
    /\ Falsy(query.serial_number) /\ Falsy(query.revisor)

Descending(data) ==
    \A i, j \in DOMAIN data :
        i < j => data[i].fecha_revision >= data[j].fecha_revision

\* The list query of request p is answered by the table.
ListRead(p) ==
    /\ pc[p] = "idle" /\ loc'[p].op = "list" /\ dbInitialized /\ remote = Ok

C13_ListFilters ==
    [][\A p \in Procs :
          /\ ListRead(p) =>
                LET query == loc'[p].query[1]
                    data == IF variant = "hosted" THEN resp'[p].data
                            ELSE loc'[p].data
                    ids == {data[i].id : i \in DOMAIN data}
                IN /\ variant = "hosted" => resp'[p].status = 200
                   /\ \A i \in DOMAIN data : data[i] = db[data[i].id]
                   /\ \A i, j \in DOMAIN data : i # j => data[i].id # data[j].id
                   /\ Truthy(query.estado) =>
                          ids = {j \in DOMAIN db :
                                    /\ db[j].estado = query.estado[1]
                                    /\ OtherFilters(db[j], query)}
                   /\ Falsy(query.estado) =>
                          ids = {j \in DOMAIN db : OtherFilters(db[j], query)}
                   /\ NoFilter(query) => ids = DOMAIN db
                   /\ Descending(data)
          /\ (pc[p] = "list_map" /\ pc'[p] = "done") =>
                /\ resp'[p].status = 200
                /\ DOMAIN resp'[p].data = DOMAIN loc[p].data
                /\ \A i \in DOMAIN loc[p].data :
                       /\ resp'[p].data[i].id = loc[p].data[i].id
                       /\ resp'[p].data[i].estado = loc[p].data[i].estado
                /\ Descending(resp'[p].data)]_vars

\* A list answered with one of two records: the other has another estado or
\* fails the filter on responsable.
C13_Witness ==
    /\ Cardinality(DOMAIN db) = 2
    /\ \E j, k \in DOMAIN db :
          /\ db[j].estado = db[k].estado
          /\ db[j].responsable # db[k].responsable
    /\ pc[1] = "done" /\ loc[1].op = "list" /\ resp[1].status = 200
    /\ loc[1].query # Undef
    /\ Truthy(loc[1].query[1].estado)
    /\ Truthy(loc[1].query[1].responsable)
    /\ variant = "hybrid"
    /\ Len(resp[1].data) = 1
    /\ resp[1].data[1].estado = Operativo
    /\ resp[1].data[1].responsable = Ana

(***************************************************************************)
(* C14.  GET /api/estadisticas on an empty record set, at the start or     *)
(* after every record was deleted, answers with every counter at zero:     *)
(* total, operativos, mantenimiento, dañados, windows_si, windows_no,       *)
(* revisiones_hoy, con_problemas, con_ubicacion, con_imagenes,             *)
(* total_imagenes, totalEquipos and windowsActualizados.                   *)
(***************************************************************************)
AllZero ==
    [total |-> 0, operativos |-> 0, mantenimiento |-> 0, danados |-> 0,
     windows_si |-> 0, windows_no |-> 0, revisiones_hoy |-> 0,
     con_problemas |-> 0, con_ubicacion |-> 0, con_imagenes |-> 0,
     total_imagenes |-> 0, totalEquipos |-> 0, windowsActualizados |-> 0]

\* The statistics query of request p is answered by the table.
StatsRead(p) ==
    /\ pc[p] = "idle" /\ loc'[p].op = "stats" /\ dbInitialized /\ remote = Ok

C14_EmptyStatsZero ==
    [][\A p \in Procs :
          (StatsRead(p) /\ db = EmptyTable)
              => /\ pc'[p] = "done"
                 /\ resp'[p].status = 200
                 /\ resp'[p].stats = Some(AllZero)]_vars

\* Statistics answered over a table whose only record was deleted.
C14_Witness ==
    /\ db = EmptyTable
    /\ nextId = 2
    /\ pc[1] = "done" /\ loc[1].op = "stats"
    /\ resp[1].status = 200
    /\ resp[1].stats = Some(AllZero)

(***************************************************************************)
(* C20.  con_ubicacion of the statistics equals the number of records in   *)
(* which both latitud and longitud are present (not null), whatever their  *)
(* values: a record with a coordinate equal to 0 is counted.               *)
(***************************************************************************)
BothCoordinates(table) ==
    {j \in DOMAIN table : table[j].latitud # Undef /\ table[j].longitud # Undef}

C20_AsStated ==
    [][\A p \in Procs :
          StatsRead(p)
              => resp'[p].stats[1].con_ubicacion
                     = Cardinality(BothCoordinates(db))]_vars

\* What the handler counts: the records whose coordinates are both present
\* and both different from 0.
C20_NonZeroCounted ==
    [][\A p \in Procs :
          StatsRead(p)
              => resp'[p].stats[1].con_ubicacion
                     = Cardinality({j \in BothCoordinates(db) :
                                       /\ db[j].latitud[1] # 0
                                       /\ db[j].longitud[1] # 0})]_vars

(***************************************************************************)
(* C15.  Round trip: a successful create with every required field and no  *)
(* image answers 201 with imagenes_guardadas = 0 and an id, and a GET      *)
(* /api/computadores/:id with that id, with no update or delete in         *)
(* between, returns a record with the submitted field values and imagenes  *)
(* equal to the empty array.  The create stores the submitted values and   *)
(* the get-one returns the stored row.                                     *)
(***************************************************************************)
OptionalNames ==
    {"placa_ml", "latitud", "longitud", "direccion_automatica", "ubicacion_manual",
     "observaciones", "problemas_detectados", "revisor"}

\* The row holds the values that were submitted.
SameSubmitted(row, values) ==
    /\ \A f \in Range(SixRequiredNames) : row[f] = values[f][1]
    /\ \A f \in OptionalNames : values[f] # Undef => row[f] = values[f]

\* Request p, a create without image, is answered 201.
CreatedNoImage(p) ==
    /\ pc[p] = "post_insert" /\ pc'[p] = "done"
    /\ resp'[p].status = 201
    /\ loc[p].items = <<>>

\* Request p asks for the record id, which the table holds.
GetExisting(p, id) ==
    /\ pc[p] = "idle" /\ loc'[p].op = "getone" /\ loc'[p].id = id
    /\ id \in DOMAIN db /\ dbInitialized /\ remote = Ok

C15_AsStated ==
    [][\A p \in Procs :
          /\ CreatedNoImage(p) =>
                /\ resp'[p].imagenes_guardadas = 0
                /\ resp'[p].id \in DOMAIN db' \ DOMAIN db
                /\ SameSubmitted(db'[resp'[p].id], loc[p].values)
                /\ db'[resp'[p].id].imagenes = <<>>
          /\ \A id \in Ids :
                GetExisting(p, id) =>
                    /\ resp'[p].status = 200
                    /\ resp'[p].data = <<db[id]>>]_vars

\* The same of the hosted variant, for coordinates of at most 8 decimals.
C15_HostedRoundTrip ==
    [][\A p \in Procs :
          /\ (/\ CreatedNoImage(p)
              /\ \A f \in {"latitud", "longitud"} :
                    loc[p].values[f] # Undef => loc[p].values[f][1] % 10 = 0) =>
                /\ resp'[p].imagenes_guardadas = 0
                /\ resp'[p].id \in DOMAIN db' \ DOMAIN db
                /\ SameSubmitted(db'[resp'[p].id], loc[p].values)
                /\ db'[resp'[p].id].imagenes = <<>>
          /\ \A id \in Ids :
                (GetExisting(p, id) /\ variant = "hosted") =>
                    /\ resp'[p].status = 200
                    /\ resp'[p].data = <<db[id]>>]_vars

(***************************************************************************)
(* C16.  Every remote database error raised in a record endpoint is mapped *)
(* by its vendor code: 23505 -> 400, 23514 -> 400, 23502 -> 400, PGRST116  *)
(* on a single-row read -> 404, every other code -> 500 with the vendor    *)
(* message in 'details'; no remote error produces a 2xx answer.            *)
(***************************************************************************)
\* The answer the claim gives to a request that got the error code.
Mapped(r, code) ==
    CASE code \in {"23505", "23514", "23502"} -> r.status = 400
      [] code = "PGRST116" -> r.status = 404
      [] OTHER -> r.status = 500 /\ r.details = VendorMessage(code)

\* Request p is answered in this step.
Answered(p) == pc[p] # "done" /\ pc'[p] = "done"

C16_AsStated ==
    [][\A p \in Procs :
          (Answered(p) /\ loc'[p].errors # {}) =>
              /\ resp'[p].status \notin 200..299
              /\ \E code \in loc'[p].errors : Mapped(resp'[p], code)]_vars

\* The same of every error but that of the delete handler's first read,
\* which the handler does not look at.
C16_ThrownMapped ==
    [][\A p \in Procs :
          /\ (Answered(p) /\ loc'[p].op # "delete" /\ loc'[p].errors # {}) =>
                /\ resp'[p].status \notin 200..299
                /\ \E code \in loc'[p].errors : Mapped(resp'[p], code)
          /\ (Answered(p) /\ pc[p] = "del_row" /\ remote # Ok) =>
                Mapped(resp'[p], remote)]_vars

(***************************************************************************)
(* C17.  imagenes_guardadas in the answer of a create and of an update     *)
(* equals the number of attachments the request newly persisted (written   *)
(* to disk or uploaded); the references it passed through are not counted. *)
(***************************************************************************)
\* The entries of a list that were made from the payload of a submitted
\* item.
NewlyPersisted(imagenes, items) ==
    {k \in DOMAIN imagenes :
        \E i \in DOMAIN items : MadeFrom(imagenes[k], items[i], i)}

C17_AsStated ==
    [][\A p \in Procs :
          /\ (PostAnswered(p) /\ resp'[p].status = 201) =>
                resp'[p].imagenes_guardadas
                    = Cardinality(NewlyPersisted(loc[p].values.imagenes, loc[p].items))
          /\ (PutAnswered(p) /\ resp'[p].status = 200) =>
                resp'[p].imagenes_guardadas
                    = Cardinality(NewlyPersisted(loc[p].values.imagenes, loc[p].items))]_vars

\* What the handlers answer: a create counts the attachments it persisted,
\* an update counts the entries of the list it stored.
C17_UpdateCountsList ==
    [][\A p \in Procs :
          /\ (PostAnswered(p) /\ resp'[p].status = 201) =>
                resp'[p].imagenes_guardadas
                    = Cardinality(NewlyPersisted(loc[p].values.imagenes, loc[p].items))
          /\ (PutAnswered(p) /\ resp'[p].status = 200) =>
                resp'[p].imagenes_guardadas = Len(db'[loc[p].id].imagenes)]_vars

(***************************************************************************)
(* C18.  After any sequence of create, update and delete requests, the     *)
(* attachment list of every record that the list and get-one endpoints     *)
(* return is an array, never null: a create and an update always write an  *)
(* array, the empty one when 'imagenes' is absent, null or not an array.   *)
(***************************************************************************)
\* A JSON array of attachment entries.
IsEntryArray(v) ==
    /\ DOMAIN v = 1..Len(v)
    /\ \A k \in DOMAIN v : {"title", "filename"} \subseteq DOMAIN v[k]

C18_ListsAreArrays ==
    [][\A p \in Procs :
          /\ (PostAnswered(p) /\ resp'[p].status = 201) =>
                /\ IsEntryArray(db'[resp'[p].id].imagenes)
                /\ ~loc[p].isArray => db'[resp'[p].id].imagenes = <<>>
          /\ (PutAnswered(p) /\ resp'[p].status = 200) =>
                /\ IsEntryArray(db'[loc[p].id].imagenes)
                /\ ~loc[p].isArray => db'[loc[p].id].imagenes = <<>>
          /\ (Answered(p) /\ loc'[p].op \in {"list", "getone"}
                 /\ resp'[p].status = 200) =>
                \A i \in DOMAIN resp'[p].data :
                    IsEntryArray(resp'[p].data[i].imagenes)
          /\ \A j \in DOMAIN db' : IsEntryArray(db'[j].imagenes)]_vars

\* A record with an attachment was updated with 'imagenes' that is not an
\* array, and is then read with an empty list.
C18_Witness ==
    /\ files # {} \/ objects # {}
    /\ pc[1] = "done" /\ loc[1].op = "list" /\ resp[1].status = 200
    /\ Len(resp[1].data) = 1
    /\ resp[1].data[1].imagenes = <<>>
    /\ resp[1].data[1].fecha_actualizacion > resp[1].data[1].fecha_revision

(***************************************************************************)
(* C19.  For two concurrent PUT requests on the same existing record,      *)
(* under every interleaving both complete with success and the record's    *)
(* final mutable fields and attachment list equal those of exactly one of  *)
(* the two requests in full, the one whose database write was applied      *)
(* last; the final state is never a mixture of fields from both.           *)
(*                                                                         *)
(* The two updates are the only requests since the start (nreq = 2) and    *)
(* hold the two slots: the one in slot 1 was received first, the one in    *)
(* slot 2 while the first was in flight or answered.  When the write of    *)
(* slot 1 is applied with slot 2 already answered, the two overlapped.     *)
(***************************************************************************)
\* p's update is written while q's update of the same record, which was in
\* the table from the start, is in flight or answered.
SecondPut(p, q) ==
    /\ p # q
    /\ PutAnswered(p)
    /\ loc[q].op = "put" /\ loc[q].id = loc[p].id
    /\ loc[p].id \in DOMAIN OneRow /\ loc[p].id \in DOMAIN db

\* As stated: the last write leaves the record as that request alone would
\* have left the record the two requests found.
C19_AsStated ==
    [][(nreq = 2 /\ SecondPut(1, 2) /\ pc[2] = "done") =>
          /\ resp[2].status = 200 /\ resp'[1].status = 200
          /\ db'[loc[1].id] = UpdatedRow(OneRow[loc[1].id], loc[1].values)]_vars

\* What holds: both are answered 200; the list and every field the last
\* write supplies are that request's, a field it leaves out keeps the value
\* it had before that write, the other request's if that one supplied it.
C19_LastWriteApplied ==
    [][\A p, q \in Procs :
          SecondPut(p, q) =>
             LET id == loc[p].id
                 values == loc[p].values
             IN /\ resp'[p].status = 200
                /\ pc[q] = "done" => resp[q].status = 200
                /\ db'[id].imagenes = values.imagenes
                /\ \A f \in Range(SixRequiredNames) :
                      db'[id][f] = IF values[f] = Undef THEN db[id][f]
                                   ELSE values[f][1]
                /\ \A f \in OptionalNames :
                      IF values[f] = Undef THEN db'[id][f] = db[id][f]
                      ELSE f \notin {"latitud", "longitud"} =>
                              db'[id][f] = Column(values[f])]_vars

\* The update received first (one image, responsable) was written last: the
\* record holds its list and its responsable, and the cargo and revisor of
\* the update received second.
C19_Witness ==
    /\ nreq = 2
    /\ \A p \in Procs : pc[p] = "done" /\ loc[p].op = "put" /\ loc[p].id = 1
                           /\ resp[p].status = 200
    /\ resp[1].imagenes_guardadas = 1 /\ resp[2].imagenes_guardadas = 0
    /\ 1 \in DOMAIN db
    /\ Len(db[1].imagenes) = 1
    /\ db[1].responsable = Luis
    /\ db[1].cargo = Jefe /\ db[1].revisor = Some(Luis)

(***************************************************************************)
(* C21.  On update, an item with an existing reference and no inline image *)
(* payload is passed through: always in the hosted variant; in the hybrid  *)
(* variant always when its filename starts with 'http', and otherwise if   *)
(* and only if the referenced file exists under the uploads root at the    *)
(* time of the request.  An item with neither payload nor filename is      *)
(* dropped.                                                                *)
(***************************************************************************)
\* A path below the uploads root.
InUploads(path) == StartsWith(path, UPLOADS_DIR \o <<"/">>)

\* The list of an update is complete: the loop over the items has ended.
PutLoopEnds(p) == pc[p] \in {"idle", "put_upload"} /\ pc'[p] = "put_update"

\* The list holds an entry with the item's filename.
HasEntryOf(list, item) == \E k \in DOMAIN list : list[k].filename = item.filename[1]

\* The reference of an item is to a regular file below the uploads root.
FileInUploads(item, fsFiles) ==
    LET path == PathJoin(UPLOADS_DIR, item.filename[1])
    IN path \in fsFiles /\ InUploads(path)

C21_AsStated ==
    [][\A p \in Procs :
          PutLoopEnds(p) =>
             LET items == loc'[p].items
                 new == loc'[p].values.imagenes
             IN \A i \in DOMAIN items :
                   ~IsNewImage(items[i]) =>
                      IF Falsy(items[i].filename)
                      THEN Len(new) < Len(items)
                      ELSE HasEntryOf(new, items[i])
                              <=> \/ variant = "hosted"
                                  \/ StartsWith(items[i].filename[1], HttpPrefix)
                                  \/ FileInUploads(items[i], files)]_vars

\* What holds: the hybrid variant passes a local reference through if and
\* only if fs.existsSync finds a file or a directory at the path joined to
\* the uploads root, wherever that path leads.
C21_ExistsSyncRule ==
    [][\A p \in Procs :
          PutLoopEnds(p) =>
             LET items == loc'[p].items
                 new == loc'[p].values.imagenes
             IN \A i \in DOMAIN items :
                   ~IsNewImage(items[i]) =>
                      IF Falsy(items[i].filename)
                      THEN Len(new) < Len(items)
                      ELSE HasEntryOf(new, items[i])
                              <=> \/ variant = "hosted"
                                  \/ StartsWith(items[i].filename[1], HttpPrefix)
                                  \/ ExistsSync(files, dirs,
                                        PathJoin(UPLOADS_DIR, items[i].filename[1]))]_vars

(***************************************************************************)
(* C22.  In the hybrid variant every attachment that GET /api/computadores *)
(* returns with a local reference (a filename that does not start with     *)
(* 'http', a url that is not a hosted-storage URL) has its file under the  *)
(* uploads root at response time; stored entries whose local file is       *)
(* missing are left out of the response and the stored record is not       *)
(* modified; hosted-storage entries are returned with their full URL as    *)
(* filename.                                                               *)
(***************************************************************************)
\* The hybrid list handler answers.
ListMapped(p) == variant = "hybrid" /\ pc[p] = "list_map" /\ pc'[p] = "done"

HostedUrl(e) == Truthy(e.url) /\ IncludesStr(e.url[1], SupabaseCo)

LocalReference(e) ==
    e.filename # <<>> /\ ~StartsWith(e.filename, HttpPrefix) /\ ~HostedUrl(e)

\* The entries of a stored list that satisfy Keep, each returned once, in
\* their order; a hosted one with its url as filename.
ReturnedAre(returned, stored, Keep(_)) ==
    LET kept == SelectSeq(stored, Keep)
    IN /\ Len(returned) = Len(kept)
       /\ \A k \in DOMAIN kept :
             /\ returned[k].title = kept[k].title
             /\ returned[k].filename =
                    IF HostedUrl(kept[k]) THEN kept[k].url[1] ELSE kept[k].filename

C22_AsStated ==
    [][\A p \in Procs :
          ListMapped(p) =>
             /\ db' = db
             /\ \A i \in DOMAIN loc[p].data :
                   /\ \A e \in Range(resp'[p].data[i].imagenes) :
                         LocalReference(e) =>
                            /\ PathJoin(UPLOADS_DIR, e.filename) \in files'
                            /\ InUploads(PathJoin(UPLOADS_DIR, e.filename))
                   /\ ReturnedAre(resp'[p].data[i].imagenes, loc[p].data[i].imagenes,
                         LAMBDA e : LocalReference(e) =>
                            /\ PathJoin(UPLOADS_DIR, e.filename) \in files'
                            /\ InUploads(PathJoin(UPLOADS_DIR, e.filename)))]_vars

\* What holds: a local entry is returned if and only if fs.existsSync finds
\* a file or a directory at the path joined to the uploads root.
C22_ExistsSyncRule ==
    [][\A p \in Procs :
          ListMapped(p) =>
             /\ db' = db
             /\ \A i \in DOMAIN loc[p].data :
                   ReturnedAre(resp'[p].data[i].imagenes, loc[p].data[i].imagenes,
                       LAMBDA e : LocalReference(e) =>
                           ExistsSync(files', dirs',
                               PathJoin(UPLOADS_DIR, e.filename)))]_vars

(***************************************************************************)
(* C23.  Attachment persistence and the database write are not atomic: a   *)
(* create or an update persists its inline images and then its insert or   *)
(* update fails, hits a duplicate identifier or matches no row, and the    *)
(* stored file or object is referenced by no record; a record can          *)
(* reference a local file that does not exist; no operation rolls back     *)
(* attachments already persisted.                                          *)
(*                                                                         *)
(* The database step of a create or an update, whatever its outcome,       *)
(* leaves the files and the objects as they are, those the request has     *)
(* persisted included.  The two kinds of states are witnesses.             *)
(***************************************************************************)
\* The local paths and the object keys the records refer to.
ReferencedPaths(table) ==
    {PathJoin(UPLOADS_DIR, e.filename) : e \in StoredEntries(table)}
ReferencedKeys(table) == {e.filename : e \in StoredEntries(table)}

\* The stored files and objects that no record refers to.
Orphans ==
    IF variant = "hybrid" THEN {f \in files : InUploads(f)} \ ReferencedPaths(db)
    ELSE objects \ ReferencedKeys(db)

\* The entries of records of the hybrid variant whose local file is missing.
Dangling ==
    {e \in StoredEntries(db) :
        /\ variant = "hybrid"
        /\ IsLocalName(e.filename)
        /\ PathJoin(UPLOADS_DIR, e.filename) \notin files}

C23_NoRollback ==
    [][\A p \in Procs :
          (PostAnswered(p) \/ PutAnswered(p)) =>
             /\ files' = files /\ objects' = objects
             /\ resp'[p].status \notin {200, 201} =>
                   /\ db' = db
                   /\ \A e \in Range(loc[p].values.imagenes) :
                         (\E i \in DOMAIN loc[p].items :
                              MadeFrom(e, loc[p].items[i], i))
                         => Stored(e, files', objects')]_vars

\* A create was refused for its duplicate identifier, or an update matched
\* no row, and an image it persisted is referenced by no record.
C23_Witness ==
    \E p \in Procs :
        /\ pc[p] = "done"
        /\ \/ loc[p].op = "post" /\ resp[p].status = 400 /\ resp[p].code = "23505"
           \/ loc[p].op = "put" /\ resp[p].status = 404
        /\ Orphans # {}
        /\ \A q \in Procs : pc[q] \in {"idle", "done"}

\* A record refers to a local file that is not on the disk.
C23_WitnessDangling ==
    /\ Dangling # {}
    /\ \A q \in Procs : pc[q] \in {"idle", "done"}


\* The process stopped between the persistence of an image and the insert
\* or the update of its record.
C23_WitnessStopped ==
    /\ server = "exited"
    /\ \E p \in Procs : pc[p] \in {"post_insert", "put_update"}
    /\ Orphans # {}


(***************************************************************************)
(* C24.  Every attachment newly persisted by create or by update is named  *)
(* by the addressing rule: the hybrid file is <epoch-millis>-<index>.      *)
(* <subtype> inside the per-equipment directory, the hosted key is         *)
(* <equipment-id>/<epoch-millis>-<index>.<subtype>, where <equipment-id>   *)
(* is the record's equipo_id and <index> the 1-based position of the item. *)
(***************************************************************************)
\* A turn, or the whole, of the loop over the submitted items.
LoopStep(p) ==
    /\ pc[p] \in {"idle", "post_upload", "put_upload"}
    /\ loc'[p].op \in {"post", "put"}
    /\ loc'[p] # loc[p]

\* The file or the object of the rule for equipment eq, time t and the
\* item at position i.
Addressed(eq, t, i, item) ==
    LET name == NumStr(t) \o <<"-">> \o NumStr(i) \o <<".">>
                    \o Subtype(item.base64[1])
    IN IF variant = "hybrid"
       THEN PathJoin(UPLOADS_DIR, SafeEquipoId(eq) \o <<"/">> \o name)
       ELSE eq \o <<"/">> \o name

\* What a step has added to the disk or to the bucket.
Persisted == IF variant = "hybrid" THEN files' \ files ELSE objects' \ objects

\* The equipo_id of the record of the request: the one submitted, and for
\* an update the one of the row.
RecordEquipoIds(p) ==
    {loc'[p].values.equipo_id[k] : k \in DOMAIN loc'[p].values.equipo_id}
        \cup (IF loc'[p].op = "put" /\ loc'[p].id \in DOMAIN db
              THEN {db[loc'[p].id].equipo_id} ELSE {})

C24_AsStated ==
    [][\A p \in Procs :
          LoopStep(p) /\ (loc'[p].op = "put" => loc'[p].id \in DOMAIN db) =>
             \A f \in Persisted :
                 \E eq \in RecordEquipoIds(p), i \in DOMAIN loc'[p].items :
                     /\ HasWellFormedPayload(loc'[p].items[i])
                     /\ f = Addressed(eq, now, i, loc'[p].items[i])]_vars

\* What holds: a create names by the submitted equipo_id, an update by the
\* text of the submitted equipo_id, 'undefined' when it is absent, followed
\* by '-update'.
C24_UpdateSuffixRule ==
    [][\A p \in Procs :
          LoopStep(p) =>
             \A f \in Persisted :
                 \E i \in DOMAIN loc'[p].items :
                     /\ HasWellFormedPayload(loc'[p].items[i])
                     /\ f = Addressed(
                               IF loc'[p].op = "post"
                               THEN loc'[p].values.equipo_id[1]
                               ELSE TemplateStr(loc'[p].values.equipo_id)
                                        \o UpdateSuffix,
                               now, i, loc'[p].items[i])]_vars


(***************************************************************************)
(* C25.  DELETE on an existing record removes the record and answers with  *)
(* success even when the deletion of attachments fails or the file is      *)
(* missing; a failure does not prevent the attempts on the remaining       *)
(* attachments and is never reported in the response.                      *)
(*                                                                         *)
(* The delete that finds its row removes it and goes on to the loop; the   *)
(* loop of the hosted variant takes every entry in turn; when the handler  *)
(* answers, it answers 200 with the message alone, the record is still     *)
(* removed, and in the hybrid variant every regular file named by the list *)
(* is gone, whatever became of the entries before it.                      *)
(***************************************************************************)
\* The delete of request p finds the row of its id.
RowFound(p) ==
    /\ pc[p] = "del_row" /\ pc'[p] # "del_row"
    /\ remote = Ok /\ loc[p].id \in DOMAIN db

\* The regular files under the names of a list of entries.
FilesNamed(imagenes, fsFiles) ==
    {f \in fsFiles :
        \E k \in DOMAIN imagenes :
            /\ imagenes[k].filename # <<>>
            /\ IsLocalName(imagenes[k].filename)
            /\ f = PathJoin(UPLOADS_DIR, imagenes[k].filename)}

C25_WitnessDirectory ==
    \E p \in Procs :
        LET imagenes == ComputadorImagenes(loc[p])
        IN /\ pc[p] = "del_files"
           /\ variant = "hybrid"
           /\ loc[p].id \notin DOMAIN db
           /\ Len(imagenes) = 2
           /\ PathJoin(UPLOADS_DIR, imagenes[1].filename) \in dirs
           /\ PathJoin(UPLOADS_DIR, imagenes[2].filename) \in files


(***************************************************************************)
(* C26.  The server starts to accept requests only after the startup       *)
(* verification has set dbInitialized, and the flag is never reset: no     *)
(* request is handled while the flag is false, and the 500 of the          *)
(* readiness gate is never sent in a run started by startServer().         *)
(***************************************************************************)
GateRefusal == "Base de datos no disponible"

C26_GateNeverRefuses ==
    [][/\ server' = "listening" => dbInitialized'
       /\ dbInitialized => dbInitialized'
       /\ \A p \in Procs :
             (pc'[p] # pc[p] \/ resp'[p] # resp[p] \/ loc'[p] # loc[p]) =>
                /\ dbInitialized
                /\ resp'[p].error # GateRefusal]_vars

\* A request was received and answered by its handler, the flag set.
C26_Witness ==
    /\ server = "listening"
    /\ dbInitialized
    /\ \E p \in Procs :
          /\ pc[p] = "done"
          /\ loc[p].op \in {"post", "put", "delete", "list", "stats", "export"}
          /\ resp[p].status \in {200, 201}


(***************************************************************************)
(* C27.  Hybrid variant: for every equipo_id and every inline payload,     *)
(* identifiers with '/', '..' or no alphanumeric character included, any   *)
(* file written by create or update lies inside the uploads root: the name *)
(* of the per-equipment directory has only characters of [a-zA-Z0-9] and   *)
(* the extension only letters.                                             *)
(***************************************************************************)
\* <digits>-<digits>.<letters>
IsFileName(n) ==
    \E a \in 2..Len(n), b \in 4..Len(n) :
        /\ a + 1 < b
        /\ n[a] = "-" /\ n[b] = "."
        /\ \A j \in 1..Len(n) :
              /\ j < a => n[j] \in Digits
              /\ (a < j /\ j < b) => n[j] \in Digits
              /\ j > b => n[j] \in Letters

\* <directory>/<file name>, the directory named with letters and digits
\* alone.
IsRelativeFilePath(r) ==
    \E k \in 0..(Len(r) - 1) :
        /\ \A j \in 1..k : r[j] \in Letters \cup Digits
        /\ r[k + 1] = "/"
        /\ IsFileName(Drop(r, k + 1))

\* The file that the hybrid step of request p writes for the item at
\* position i, if it writes one.
WrittenFor(p, i) ==
    LET item == loc'[p].items[i]
        eq == IF loc'[p].op = "post" THEN loc'[p].values.equipo_id[1]
              ELSE TemplateStr(loc'[p].values.equipo_id) \o UpdateSuffix
    IN IF loc'[p].op = "post" \/ IsNewImage(item)
       THEN saveImageLocally(item.base64, eq, i, now)
       ELSE NoSave

C27_WrittenInsideUploads ==
    [][\A p \in Procs :
          (LoopStep(p) /\ variant = "hybrid") =>
             /\ \A f \in files' \ files :
                   /\ InUploads(f)
                   /\ \E r \in {e.filename : e \in Range(loc'[p].values.imagenes)} :
                         /\ IsRelativeFilePath(r)
                         /\ f = UPLOADS_DIR \o (IF r[1] = "/" THEN <<>> ELSE <<"/">>) \o r
             /\ \A i \in DOMAIN loc'[p].items :
                   WrittenFor(p, i).ok =>
                      /\ WrittenFor(p, i).path \in files'
                      /\ InUploads(WrittenFor(p, i).path)
                      /\ IsRelativeFilePath(WrittenFor(p, i).filename)]_vars

\* A create whose equipo_id is '../x' and whose first payload announces the
\* subtype '../x' has written its second image, and nothing else, under
\* the uploads root.
C27_Witness ==
    \E p \in Procs :
        /\ variant = "hybrid"
        /\ pc[p] = "post_insert"
        /\ loc[p].values.equipo_id = Some(DotDotId)
        /\ Len(loc[p].items) = 2
        /\ loc[p].items[1].base64 = Some(TraversalUri)
        /\ Len(loc[p].values.imagenes) = 1
        /\ PathJoin(UPLOADS_DIR, loc[p].values.imagenes[1].filename) \in files
        /\ \A f \in files : f = ServerJs \/ InUploads(f)


(***************************************************************************)
(* C28.  Hybrid variant: after any sequence of create, update and delete   *)
(* requests with arbitrary client-supplied filenames, filenames with '..'  *)
(* segments passed through by an update included, a DELETE never removes a *)
(* file that lies outside the uploads root.                                *)
(***************************************************************************)
C28_AsStated ==
    [][\A p \in Procs :
          (DeleteAnswered(p) /\ variant = "hybrid") =>
             \A f \in files \ files' : InUploads(f)]_vars

\* What holds: a DELETE removes only regular files at the join of the
\* uploads root and a filename of the list read before the delete.
C28_RemovesNamedFiles ==
    [][\A p \in Procs :
          (DeleteAnswered(p) /\ variant = "hybrid") =>
             files \ files' = FilesNamed(ComputadorImagenes(loc[p]), files)]_vars


(***************************************************************************)
(* C29.  Persisting a new attachment never overwrites a stored file or     *)
(* object: across all creates and updates, two requests of the same        *)
(* millisecond and identifiers that sanitise to the same directory name    *)
(* included, every newly persisted attachment receives a reference that no *)
(* stored file or object and no attachment entry of any record uses.       *)
(***************************************************************************)
C29_AsStated ==
    [][\A p \in Procs :
          LoopStep(p) =>
             IF variant = "hybrid"
             THEN \A i \in DOMAIN loc'[p].items :
                      WrittenFor(p, i).ok =>
                         /\ WrittenFor(p, i).path \notin files
                         /\ WrittenFor(p, i).filename \notin ReferencedKeys(db)
             ELSE \A k \in objects' \ objects : k \notin ReferencedKeys(db)]_vars

\* What holds: the hosted variant never replaces an object, and its new
\* keys are in no record.
C29_HostedNeverOverwrites ==
    [][\A p \in Procs :
          (LoopStep(p) /\ variant = "hosted") =>
             /\ objects \subseteq objects'
             /\ \A k \in objects' \ objects : k \notin ReferencedKeys(db)]_vars


(***************************************************************************)
(* C30.  Of two concurrent DELETE requests on the same existing record,    *)
(* under every interleaving exactly one returns success and the other 404, *)
(* the record is removed exactly once, and only the request that removed   *)
(* the row attempts to delete the attachment files of the record.          *)
(*                                                                         *)
(* Two DELETE requests of one id whose reads before the delete both found  *)
(* the row overlap: ids are never reused, and a DELETE received after the  *)
(* row is gone reads nothing.                                              *)
(***************************************************************************)
\* Requests p and q are DELETEs of one id that both read the row.
BothReadRow(p, q, pcv, locv) ==
    /\ p # q
    /\ locv[p].op = "delete" /\ locv[q].op = "delete"
    /\ locv[p].id = locv[q].id
    /\ locv[p].errors = {} /\ locv[q].errors = {}
    /\ pcv[p] # "idle" /\ pcv[q] # "idle"

\* Request p has removed the row, and is in or past its loop.
Remover(p, pcv, locv, respv) ==
    \/ pcv[p] = "del_files"
    \/ pcv[p] = "done" /\ respv[p].status = 200

C30_OneDeleteWins ==
    [][\A p \in Procs :
          /\ \A q \in Procs :
                BothReadRow(p, q, pc', loc') =>
                   /\ ~(Remover(p, pc', loc', resp') /\ Remover(q, pc', loc', resp'))
                   /\ (pc'[p] = "done" /\ pc'[q] = "done") =>
                         {resp'[p].status, resp'[q].status} = {200, 404}
                   /\ (pc'[p] = "done" /\ resp'[p].status = 404) =>
                         /\ Remover(q, pc', loc', resp')
                         /\ loc'[p].id \notin DOMAIN db'
          /\ RowFound(p) =>
                /\ db' = [j \in DOMAIN db \ {loc[p].id} |-> db[j]]
                /\ files' = files /\ objects' = objects
          /\ (pc[p] = "del_row" /\ pc'[p] # "del_row" /\ loc[p].id \notin DOMAIN db) =>
                /\ pc'[p] = "done" /\ resp'[p].status = 404
                /\ db' = db /\ files' = files /\ objects' = objects
          /\ (loc[p].op = "delete" /\ (files' # files \/ objects' # objects)
                 /\ (pc'[p] # pc[p] \/ loc'[p] # loc[p])) =>
                /\ pc[p] = "del_files"
                /\ loc[p].data # <<>>]_vars

\* Two DELETE requests of one id both read the row; one was answered 200,
\* the other 404.
C30_Witness ==
    \E p, q \in Procs :
        /\ BothReadRow(p, q, pc, loc)
        /\ pc[p] = "done" /\ resp[p].status = 404
        /\ pc[q] = "done" /\ resp[q].status = 200
        /\ loc[p].id \notin DOMAIN db

=============================================================================
